---- MODULE Spec2Model ----
(***************************************************************************)
(* A model of go_scrap's section segmentation and markdown chunking core:  *)
(* the size limits (ChunkLimits), the bundler (bundleParts and             *)
(* WriteMarkdownParts), the sub-section splitter (splitMarkdownByHeadings  *)
(* and writeMarkdownFile), the heading-ID resolver (slugifyHeading and    *)
(* deduplicateID as driven by Parse), the index builder (WriteIndex), the  *)
(* section segmenter (Parse on a document tree), the menu-based section    *)
(* files (WriteSectionFiles), and of what drives the core: the crawler     *)
(* (internal/crawler) and a single-page run (app.Run).                     *)
(*                                                                         *)
(* Go strings are modelled as sequences of characters.  A character is a   *)
(* one-letter TLA+ string; "U" stands for one non-ASCII rune that takes    *)
(* two bytes in UTF-8 (such as e-acute), every other character is ASCII.   *)
(***************************************************************************)
EXTENDS Integers, Sequences, FiniteSets, TLC

VARIABLES
    pc,        \* which call has been made on the inputs of this behaviour
    limits,    \* the ChunkLimits handed to the call
    parts,     \* WriteMarkdownParts / bundleParts: the rendered sections
    bundles,   \* the value returned by bundleParts
    md,        \* writeMarkdownFile / splitMarkdownByHeadings: one section's markdown
    mdParts,   \* the value returned by splitMarkdownByHeadings
    files,     \* the file system: path -> content, for the files written
    dirs,      \* the directories created by os.MkdirAll
    size,      \* exceeds: the chunkSize argument
    verdict,   \* exceeds / Enabled: the values returned
    headings,  \* Parse: the heading elements of the document, in document order
    seen,      \* Parse: headingIDSet
    headingIDs, \* Parse: the HeadingID of each section appended so far
    text,      \* slugifyHeading: the heading text
    slug,      \* slugifyHeading and deduplicateID: the values returned
    sections,  \* WriteIndex: the sections handed in
    hierarchy, \* WriteIndex: heading level -> heading text
    pos,       \* WriteIndex: how many sections the loop has gone through
    records,   \* WriteIndex: the IndexRecords whose line was written
    dom,       \* Parse: the nodes of the document, in document order
    parsedSections,\* Parse: the sections appended so far
    allIDs,    \* Parse: the ids of doc.Find("[id]")
    jobs,      \* concurrent invocations: what each worker was asked to run
    frames,    \* concurrent invocations: the local variables of each invocation
    opts,      \* crawler: Options (MaxPages)
    urlCount,  \* crawler: URLs counted against MaxPages
    visited,   \* collector: URLs accepted by Visit
    inflight,  \* collector: requests not yet answered
    handling,  \* collector: link callbacks left per response
    results,   \* crawler: url -> Result
    stats,     \* crawler: Stats
    crawlPc,   \* position of the caller of the crawler
    returned,  \* what Crawl returned
    runOpts,   \* Run: Options (DryRun, UseCache, DownloadAssets, Yes)
    page,      \* Run: the HTML the server answers with
    fetched,   \* Run: the fetch.Result of fetchResult
    runPc,     \* Run: position in runSingle
    menu,      \* WriteSectionFiles: the menu nodes, in pre-order
    mdByID,    \* WriteSectionFiles: anchor -> markdown
    maxItems,  \* WriteSectionFiles: maxItems
    written    \* WriteSectionFiles: the nodes handed to writeMarkdownFile

vars == <<pc, limits, parts, bundles, md, mdParts, files, dirs, size, verdict,
          headings, seen, headingIDs,
          text, slug,
          sections, hierarchy, pos, records,
          dom, parsedSections, allIDs,
          jobs, frames,
          opts, urlCount, visited, inflight, handling, results, stats, crawlPc, returned,
          runOpts, page, fetched, runPc,
          menu, mdByID, maxItems, written>>

menuVars == <<menu, mdByID, maxItems, written>>

MenuIdle ==
    /\ menu = <<>>
    /\ mdByID = <<>>
    /\ maxItems = 0
    /\ written = <<>>

runVars == <<runOpts, page, fetched, runPc>>

RunIdle ==
    /\ runOpts = <<>>
    /\ page = <<>>
    /\ fetched = <<>>
    /\ runPc = "idle"

crawlVars == <<opts, urlCount, visited, inflight, handling, results, stats, crawlPc, returned>>

CrawlIdle ==
    /\ opts = <<>>
    /\ urlCount = 0
    /\ visited = {}
    /\ inflight = {}
    /\ handling = <<>>
    /\ results = <<>>
    /\ stats = <<>>
    /\ crawlPc = "idle"
    /\ returned = <<>>

workerVars == <<jobs, frames>>

WorkerIdle ==
    /\ jobs = <<>>
    /\ frames = <<>>

domVars == <<dom, parsedSections, allIDs>>

DomIdle ==
    /\ dom = <<>>
    /\ parsedSections = <<>>
    /\ allIDs = <<>>

indexVars == <<sections, hierarchy, pos, records>>

IndexIdle ==
    /\ sections = <<>>
    /\ hierarchy = <<>>
    /\ pos = 0
    /\ records = <<>>

slugVars == <<text, slug>>

SlugIdle ==
    /\ text = <<>>
    /\ slug = <<>>

-----------------------------------------------------------------------------
(* Go's strings package, on sequences of characters.                       *)

NL == <<"\n">>

\* unicode.IsSpace, on the characters of the model
IsSpace(c) == c \in {" ", "\n", "\r", "\t"}

\* the UTF-8 width of a character
CharBytes(c) == IF c = "U" THEN 2 ELSE 1

RECURSIVE byteLenFrom(_, _)
byteLenFrom(s, i) == IF i > Len(s) THEN 0 ELSE CharBytes(s[i]) + byteLenFrom(s, i + 1)

\* len(s) of a Go string: its length in bytes
ByteLen(s) == byteLenFrom(s, 1)

RECURSIVE firstNonSpace(_, _)
firstNonSpace(s, i) ==
    IF i > Len(s) THEN i ELSE IF IsSpace(s[i]) THEN firstNonSpace(s, i + 1) ELSE i

RECURSIVE lastNonSpace(_, _)
lastNonSpace(s, i) ==
    IF i < 1 THEN i ELSE IF IsSpace(s[i]) THEN lastNonSpace(s, i - 1) ELSE i

\* strings.TrimSpace: s without its leading and trailing white space
TrimSpace(s) == SubSeq(s, firstNonSpace(s, 1), lastNonSpace(s, Len(s)))

HasPrefix(s, p) == Len(s) >= Len(p) /\ SubSeq(s, 1, Len(p)) = p

HasSuffix(s, p) == Len(s) >= Len(p) /\ SubSeq(s, Len(s) - Len(p) + 1, Len(s)) = p

RECURSIVE indexFrom(_, _, _)
indexFrom(s, sep, i) ==
    IF i + Len(sep) - 1 > Len(s) THEN 0
    ELSE IF \A j \in 1..Len(sep) : s[i + j - 1] = sep[j] THEN i
    ELSE indexFrom(s, sep, i + 1)

\* strings.Index: the first position where sep occurs in s, 0 when it does not
Index(s, sep) == indexFrom(s, sep, 1)

Contains(s, sub) == Index(s, sub) # 0

\* strings.Split(s, sep) for a non-empty sep
RECURSIVE Split(_, _)
Split(s, sep) ==
    LET k == Index(s, sep)
    IN IF k = 0 THEN <<s>>
       ELSE <<SubSeq(s, 1, k - 1)>> \o Split(SubSeq(s, k + Len(sep), Len(s)), sep)

RECURSIVE Join(_, _)
Join(ss, sep) ==
    IF ss = <<>> THEN <<>>
    ELSE IF Len(ss) = 1 THEN ss[1]
    ELSE ss[1] \o sep \o Join(Tail(ss), sep)

\* strings.ReplaceAll(s, old, new) for a non-empty old
RECURSIVE ReplaceAll(_, _, _)
ReplaceAll(s, old, new) ==
    LET k == Index(s, old)
    IN IF k = 0 THEN s
       ELSE SubSeq(s, 1, k - 1) \o new \o ReplaceAll(SubSeq(s, k + Len(old), Len(s)), old, new)

\* strings.Count(s, sub) for a non-empty sub: non-overlapping occurrences
RECURSIVE Count(_, _)
Count(s, sub) ==
    LET k == Index(s, sub)
    IN IF k = 0 THEN 0 ELSE 1 + Count(SubSeq(s, k + Len(sub), Len(s)), sub)

\* strconv.Itoa for n >= 0
Digit(d) == <<"0", "1", "2", "3", "4", "5", "6", "7", "8", "9">>[d + 1]

RECURSIVE Itoa(_)
Itoa(n) == IF n < 10 THEN <<Digit(n)>> ELSE Itoa(n \div 10) \o <<Digit(n % 10)>>

\* fmt.Sprintf("%03d", n) for n >= 0
Pad3(n) ==
    LET d == Itoa(n)
    IN IF Len(d) >= 3 THEN d ELSE [i \in 1..(3 - Len(d)) |-> "0"] \o d

-----------------------------------------------------------------------------
(* ChunkLimits and chunkSize.                                              *)

NoLimits == [MaxBytes |-> 0, MaxChars |-> 0, MaxTokens |-> 0]

Enabled(c) == c.MaxBytes > 0 \/ c.MaxChars > 0 \/ c.MaxTokens > 0

\* mutant of exceeds: a size equal to the ceiling already counts as surpassing it
exceeds_atLeast(c, sz) ==
    IF c.MaxBytes > 0 /\ sz.bytes >= c.MaxBytes THEN TRUE
    ELSE IF c.MaxChars > 0 /\ sz.chars >= c.MaxChars THEN TRUE
    ELSE IF c.MaxTokens > 0 /\ sz.tokens >= c.MaxTokens THEN TRUE
    ELSE FALSE

\* mutant of exceeds: every configured ceiling must be surpassed (AND for OR)
exceeds_all(c, sz) ==
    /\ c.MaxBytes > 0 \/ c.MaxChars > 0 \/ c.MaxTokens > 0
    /\ c.MaxBytes > 0 => sz.bytes > c.MaxBytes
    /\ c.MaxChars > 0 => sz.chars > c.MaxChars
    /\ c.MaxTokens > 0 => sz.tokens > c.MaxTokens

exceeds(c, sz) ==
    IF c.MaxBytes > 0 /\ sz.bytes > c.MaxBytes THEN TRUE
    ELSE IF c.MaxChars > 0 /\ sz.chars > c.MaxChars THEN TRUE
    ELSE IF c.MaxTokens > 0 /\ sz.tokens > c.MaxTokens THEN TRUE
    ELSE FALSE

estimateTokens(chars) == IF chars = 0 THEN 0 ELSE (chars + 3) \div 4

ZeroSize == [bytes |-> 0, chars |-> 0, tokens |-> 0]

sizeOfString(s) ==
    IF s = <<>> THEN ZeroSize
    ELSE [bytes |-> ByteLen(s), chars |-> Len(s), tokens |-> estimateTokens(Len(s))]

add(s, o) ==
    [bytes |-> s.bytes + o.bytes, chars |-> s.chars + o.chars, tokens |-> s.tokens + o.tokens]

-----------------------------------------------------------------------------
(* Paths and the file system.                                              *)

S_output == <<"o", "u", "t", "p", "u", "t">>
S_content_md == <<"c", "o", "n", "t", "e", "n", "t", ".", "m", "d">>
S_md == <<".", "m", "d">>
S_part == <<"p", "a", "r", "t", "-">>
S_split_into == <<"S", "p", "l", "i", "t", " ", "i", "n", "t", "o", " ">>
S_parts_colon == <<" ", "p", "a", "r", "t", "s", ":">>

\* filepath.Join of two non-empty elements
PathJoin(a, b) == a \o <<"/">> \o b

\* filepath.Base: the last element of a path
Base(p) ==
    LET sl == {i \in 1..Len(p) : p[i] = "/"}
    IN IF sl = {} THEN p
       ELSE SubSeq(p, (CHOOSE i \in sl : \A j \in sl : j <= i) + 1, Len(p))

\* filepath.Ext: the suffix of the last element beginning at its final dot
Ext(p) ==
    LET b == Base(p)
        dots == {i \in 1..Len(b) : b[i] = "."}
    IN IF dots = {} THEN <<>>
       ELSE SubSeq(b, CHOOSE i \in dots : \A j \in dots : j <= i, Len(b))

TrimSuffix(s, suf) == IF HasSuffix(s, suf) THEN SubSeq(s, 1, Len(s) - Len(suf)) ELSE s

\* fmt.Sprintf("part-%03d.md", n)
PartName(n) == S_part \o Pad3(n) \o S_md

\* os.WriteFile on the modelled file system (creates or overwrites)
WriteFile(fs, path, content) ==
    [p \in (DOMAIN fs) \cup {path} |-> IF p = path THEN content ELSE fs[p]]

NoFiles == [p \in {} |-> <<>>]

-----------------------------------------------------------------------------
(* The bundler: bundleParts and WriteMarkdownParts.                        *)

\* the state of bundleParts' loop
NewBundler == [bundles |-> <<>>, cur |-> <<>>, curSize |-> ZeroSize]

FlushBundle(st) ==
    [bundles |-> Append(st.bundles, TrimSpace(st.cur) \o NL), cur |-> <<>>, curSize |-> ZeroSize]

\* what bundleParts makes of a non-blank part before it measures it
normalizePart(raw) ==
    LET trimmed == TrimSpace(raw)
    IN IF HasSuffix(trimmed, NL) THEN trimmed ELSE trimmed \o NL

\* mutant of bundleOne: the accumulator is not flushed before a part that would
\* take it over the limit is appended
bundleOne_noPreFlush(st, raw, lim) ==
    LET trimmed == TrimSpace(raw)
        part == normalizePart(raw)
        partSize == sizeOfString(part)
        st2 == [st EXCEPT !.cur = @ \o part, !.curSize = add(@, partSize)]
    IN IF trimmed = <<>> THEN st
       ELSE IF st.curSize.bytes = 0 /\ exceeds(lim, partSize)
            THEN [st EXCEPT !.bundles = Append(@, TrimSpace(part) \o NL)]
       ELSE IF exceeds(lim, st2.curSize) THEN FlushBundle(st2)
       ELSE st2

\* mutant of bundleOne: the oversized part emitted as its own bundle is appended to
\* the accumulator as well (the continue is missing)
bundleOne_noContinue(st, raw, lim) ==
    LET trimmed == TrimSpace(raw)
        part == normalizePart(raw)
        partSize == sizeOfString(part)
        st1 == IF st.curSize.bytes > 0 /\ exceeds(lim, add(st.curSize, partSize))
               THEN FlushBundle(st) ELSE st
        st1b == IF st1.curSize.bytes = 0 /\ exceeds(lim, partSize)
                THEN [st1 EXCEPT !.bundles = Append(@, TrimSpace(part) \o NL)]
                ELSE st1
        st2 == [st1b EXCEPT !.cur = @ \o part, !.curSize = add(@, partSize)]
    IN IF trimmed = <<>> THEN st
       ELSE IF exceeds(lim, st2.curSize) THEN FlushBundle(st2)
       ELSE st2

\* one iteration of bundleParts' loop over parts
bundleOne(st, raw, lim) ==
    LET trimmed == TrimSpace(raw)
        part == normalizePart(raw)
        partSize == sizeOfString(part)
        st1 == IF st.curSize.bytes > 0 /\ exceeds(lim, add(st.curSize, partSize))
               THEN FlushBundle(st) ELSE st
        st2 == [st1 EXCEPT !.cur = @ \o part, !.curSize = add(@, partSize)]
    IN IF trimmed = <<>> THEN st
       ELSE IF st1.curSize.bytes = 0 /\ exceeds(lim, partSize)
            THEN [st1 EXCEPT !.bundles = Append(@, TrimSpace(part) \o NL)]
       ELSE IF exceeds(lim, st2.curSize) THEN FlushBundle(st2)
       ELSE st2

RECURSIVE bundleLoop(_, _, _)
bundleLoop(st, ps, lim) ==
    IF ps = <<>> THEN st ELSE bundleLoop(bundleOne(st, Head(ps), lim), Tail(ps), lim)

bundleParts(ps, lim) ==
    LET st == bundleLoop(NewBundler, ps, lim)
    IN IF TrimSpace(st.cur) # <<>> THEN Append(st.bundles, TrimSpace(st.cur) \o NL)
       ELSE st.bundles

RECURSIVE firstHeadingScan(_)
firstHeadingScan(lines) ==
    IF lines = <<>> THEN <<>>
    ELSE LET line == TrimSpace(Head(lines))
         IN IF line = <<>> THEN firstHeadingScan(Tail(lines))
            ELSE IF HasPrefix(line, <<"#">>) THEN line
            ELSE <<>>

firstHeadingLine(m) == firstHeadingScan(Split(m, NL))

RECURSIVE indexLines(_, _, _)
indexLines(partDir, i, n) ==
    IF i > n THEN <<>>
    ELSE <<"-", " ">> \o partDir \o <<"/">> \o PartName(i) \o NL \o indexLines(partDir, i + 1, n)

buildSplitIndex(heading, partDir, n) ==
    (IF heading # <<>> THEN heading \o NL \o NL ELSE <<>>)
    \o S_split_into \o Itoa(n) \o S_parts_colon \o NL \o NL
    \o indexLines(partDir, 1, n)

WriteMarkdown(fs, outputDir, filename, markdown) ==
    LET dir == IF outputDir = <<>> THEN S_output ELSE outputDir
        name == IF filename = <<>> THEN S_content_md ELSE filename
    IN [files |-> WriteFile(fs.files, PathJoin(dir, name), markdown),
        dirs |-> fs.dirs \cup {dir}]

\* mutant of writeParts: the part files are numbered from 0
RECURSIVE writeParts_zeroBased(_, _, _, _)
writeParts_zeroBased(f, dir, ps, i) ==
    IF i > Len(ps) THEN f
    ELSE writeParts_zeroBased(WriteFile(f, PathJoin(dir, PartName(i - 1)), ps[i]), dir, ps, i + 1)

RECURSIVE writeParts(_, _, _, _)
writeParts(f, dir, ps, i) ==
    IF i > Len(ps) THEN f
    ELSE writeParts(WriteFile(f, PathJoin(dir, PartName(i)), ps[i]), dir, ps, i + 1)

WriteMarkdownParts(fs, outputDir, filename, ps, lim) ==
    LET dir == IF outputDir = <<>> THEN S_output ELSE outputDir
        name == IF filename = <<>> THEN S_content_md ELSE filename
        fs0 == [fs EXCEPT !.dirs = @ \cup {dir}]
        baseName == TrimSuffix(name, Ext(name))
        basePath == PathJoin(dir, baseName)
        bs == bundleParts(ps, lim)
        heading == firstHeadingLine(Join(ps, <<>>))
        index == buildSplitIndex(heading, baseName, Len(bs))
    IN IF ~Enabled(lim) THEN WriteMarkdown(fs0, dir, name, Join(ps, <<>>))
       ELSE IF Len(bs) <= 1 THEN WriteMarkdown(fs0, dir, name, Join(ps, <<>>))
       ELSE [files |-> WriteFile(writeParts(fs0.files, basePath, bs, 1), PathJoin(dir, name), index),
             dirs |-> fs0.dirs \cup {basePath}]

-----------------------------------------------------------------------------
(* The sub-section splitter: splitMarkdownByHeadings and its chunkWriter.  *)

CRLF == <<"\r", "\n">>

RECURSIVE prefixScan(_, _, _)
prefixScan(lines, i, m) ==
    IF i > Len(lines) THEN [prefix |-> <<>>, body |-> m]
    ELSE IF TrimSpace(lines[i]) = <<>> THEN prefixScan(lines, i + 1, m)
    ELSE IF HasPrefix(TrimSpace(lines[i]), <<"#">>)
         THEN [prefix |-> TrimSpace(lines[i]) \o NL \o NL,
               body |-> TrimSpace(Join(SubSeq(lines, i + 1, Len(lines)), NL))]
    ELSE [prefix |-> <<>>, body |-> m]

splitHeadingPrefix(m) == prefixScan(Split(m, NL), 1, m)

\* the test splitOnSubheadings makes on a trimmed line
isSubheading(trim) ==
    \/ HasPrefix(trim, <<"#", "#", "#", " ">>)
    \/ HasPrefix(trim, <<"#", "#", "#", "#", " ">>)
    \/ HasPrefix(trim, <<"#", "#", "#", "#", "#", " ">>)
    \/ HasPrefix(trim, <<"#", "#", "#", "#", "#", "#", " ">>)

RECURSIVE subheadingScan(_, _, _)
subheadingScan(lines, cur, blocks) ==
    IF lines = <<>>
    THEN IF Len(cur) > 0 THEN Append(blocks, TrimSpace(cur)) ELSE blocks
    ELSE LET line == Head(lines)
             cut == isSubheading(TrimSpace(line)) /\ Len(cur) > 0
         IN subheadingScan(Tail(lines),
                           (IF cut THEN <<>> ELSE cur) \o line \o NL,
                           IF cut THEN Append(blocks, TrimSpace(cur)) ELSE blocks)

splitOnSubheadings(body) == subheadingScan(Split(ReplaceAll(body, CRLF, NL), NL), <<>>, <<>>)

RECURSIVE dropBlank(_)
dropBlank(bs) ==
    IF bs = <<>> THEN <<>>
    ELSE IF TrimSpace(Head(bs)) = <<>> THEN dropBlank(Tail(bs))
    ELSE <<TrimSpace(Head(bs))>> \o dropBlank(Tail(bs))

splitOnParagraphs(body) == dropBlank(Split(ReplaceAll(body, CRLF, NL), NL \o NL))

curHasContentBeyondPrefix(cur, prefix) ==
    IF TrimSpace(prefix) = <<>> THEN cur.bytes > 0
    ELSE LET prefixSize == sizeOfString(prefix)
         IN cur.bytes > prefixSize.bytes \/ cur.chars > prefixSize.chars
            \/ cur.tokens > prefixSize.tokens

newChunkWriter(prefix, lim) ==
    [prefix |-> prefix, limits |-> lim, cur |-> prefix, size |-> sizeOfString(prefix),
     parts |-> <<>>]

hasContentBeyondPrefix(w) == curHasContentBeyondPrefix(w.size, w.prefix)

flush(w) ==
    LET out == TrimSpace(w.cur)
    IN [w EXCEPT !.parts = IF out # <<>> THEN Append(@, out \o NL) ELSE @,
                 !.cur = w.prefix,
                 !.size = sizeOfString(w.prefix)]

\* mutant of addSubBlock: the accumulator is not flushed before a block that does
\* not fit is added
addSubBlock_noPreFlush(w, raw) ==
    LET sub == TrimSpace(raw)
        sep == IF curHasContentBeyondPrefix(w.size, w.prefix) THEN NL \o NL ELSE <<>>
        w2 == [w EXCEPT !.cur = @ \o sep \o sub,
                        !.size = add(add(w.size, sizeOfString(sep)), sizeOfString(sub))]
    IN IF sub = <<>> THEN w
       ELSE IF exceeds(w2.limits, w2.size) /\ curHasContentBeyondPrefix(w2.size, w2.prefix)
       THEN [w2 EXCEPT !.parts = Append(@, TrimSpace(w2.cur) \o NL),
                       !.cur = w2.prefix,
                       !.size = sizeOfString(w2.prefix)]
       ELSE w2

addSubBlock(w, raw) ==
    LET sub == TrimSpace(raw)
        beyond == hasContentBeyondPrefix(w)
        sep0 == IF beyond THEN NL \o NL ELSE <<>>
        combined0 == add(add(w.size, sizeOfString(sep0)), sizeOfString(sub))
        early == beyond /\ exceeds(w.limits, combined0)
        w1 == IF early THEN flush(w) ELSE w
        sep == IF early THEN <<>> ELSE sep0
        combined == IF early THEN add(w1.size, sizeOfString(sub)) ELSE combined0
        w2 == [w1 EXCEPT !.cur = @ \o sep \o sub, !.size = combined]
    IN IF sub = <<>> THEN w
       ELSE IF exceeds(w2.limits, w2.size) /\ hasContentBeyondPrefix(w2) THEN flush(w2)
       ELSE w2

expandSubBlocks(w, block) ==
    IF exceeds(w.limits, sizeOfString(block)) THEN splitOnParagraphs(block) ELSE <<block>>

RECURSIVE addSubBlocks(_, _)
addSubBlocks(w, subs) ==
    IF subs = <<>> THEN w ELSE addSubBlocks(addSubBlock(w, Head(subs)), Tail(subs))

AddBlock(w, raw) ==
    LET block == TrimSpace(raw)
    IN IF block = <<>> THEN w ELSE addSubBlocks(w, expandSubBlocks(w, block))

RECURSIVE addBlocks(_, _)
addBlocks(w, blocks) ==
    IF blocks = <<>> THEN w ELSE addBlocks(AddBlock(w, Head(blocks)), Tail(blocks))

\* mutant of Parts: the accumulator left after the last block is not emitted
Parts_noFinalFlush(w) == w.parts

Parts(w) ==
    LET out == TrimSpace(w.cur)
    IN IF out # <<>> THEN Append(w.parts, out \o NL) ELSE w.parts

\* the prefix splitMarkdownByHeadings hands to the chunkWriter
keptPrefix(prefix, lim) == IF exceeds(lim, sizeOfString(prefix)) THEN <<>> ELSE prefix

splitMarkdownByHeadings(m, lim) ==
    LET t == TrimSpace(m)
        pb == splitHeadingPrefix(t)
        prefix == keptPrefix(pb.prefix, lim)
        blocks == splitOnSubheadings(pb.body)
    IN IF t = <<>> THEN <<>>
       ELSE IF ~Enabled(lim) \/ ~exceeds(lim, sizeOfString(t)) THEN <<t>>
       ELSE Parts(addBlocks(newChunkWriter(prefix, lim), blocks))

\* whether writeMarkdownFile falls back to writing the unsplit markdown
writesUnsplit(ps) == Len(ps) = 0

writeMarkdownFile(fs, basePath, m, lim) ==
    LET ps == splitMarkdownByHeadings(m, lim)
        index == buildSplitIndex(firstHeadingLine(m), Base(basePath), Len(ps))
    IN IF ~Enabled(lim) \/ ~exceeds(lim, sizeOfString(m))
       THEN [fs EXCEPT !.files = WriteFile(@, basePath \o S_md, m)]
       ELSE IF writesUnsplit(ps)
       THEN [fs EXCEPT !.files = WriteFile(@, basePath \o S_md, m)]
       ELSE [files |-> WriteFile(writeParts(fs.files, basePath, ps, 1), basePath \o S_md, index),
             dirs |-> fs.dirs \cup {basePath}]

-----------------------------------------------------------------------------
(* Inputs.  Every character sequence below is a value the Go program can   *)
(* be handed; the sets are small so that TLC can enumerate them.           *)

MaxParts == 3
MaxLimit == 5
MaxTokenLimit == 2

Letters == <<"a", "b", "c", "d", "e", "f", "g", "h">>

PartKinds == {"blank", "short", "bare", "head", "padded"}

\* the rendered section of the given kind at position i of the input list
PartOf(kind, i) ==
    CASE kind = "blank"  -> <<" ", "\n">>
      [] kind = "short"  -> <<Letters[i], "\n">>
      [] kind = "bare"   -> <<Letters[i], Letters[i]>>
      [] kind = "head"   -> <<"#", "U", Letters[i], "\n">>
      [] kind = "padded" -> <<"\n", Letters[i], "\n", "\n">>

PartLists ==
    UNION {{[i \in 1..n |-> PartOf(ks[i], i)] : ks \in [1..n -> PartKinds]} : n \in 0..MaxParts}

BundleLimits ==
    [MaxBytes : 0..MaxLimit, MaxChars : {0, MaxLimit - 1}, MaxTokens : 0..MaxTokenLimit]

OutputDir == <<"o">>

-----------------------------------------------------------------------------
(* The bundler's specification: one call of bundleParts or of              *)
(* WriteMarkdownParts on a list of rendered sections.                      *)

InitBundle ==
    /\ pc = "init"
    /\ limits \in BundleLimits
    /\ parts \in PartLists
    /\ bundles = <<>>
    /\ md = <<>>
    /\ mdParts = <<>>
    /\ files = NoFiles
    /\ dirs = {}
    /\ size = ZeroSize
    /\ verdict = [exceeds |-> FALSE, enabled |-> FALSE]
    /\ headings = <<>>
    /\ seen = {}
    /\ headingIDs = <<>>
    /\ SlugIdle
    /\ IndexIdle
    /\ DomIdle
    /\ WorkerIdle
    /\ CrawlIdle
    /\ RunIdle
    /\ MenuIdle

CallBundleParts ==
    /\ pc = "init"
    /\ bundles' = bundleParts(parts, limits)
    /\ pc' = "bundled"
    /\ UNCHANGED <<limits, parts, md, mdParts, files, dirs, size, verdict,
                   headings, seen, headingIDs,
                   slugVars,
                   indexVars,
                   domVars,
                   workerVars,
                   crawlVars,
                   runVars,
                   menuVars>>

CallWriteMarkdownParts ==
    /\ pc = "init"
    /\ LET fs == WriteMarkdownParts([files |-> files, dirs |-> dirs], OutputDir,
                                    S_content_md, parts, limits)
       IN /\ files' = fs.files
          /\ dirs' = fs.dirs
    /\ pc' = "written"
    /\ UNCHANGED <<limits, parts, bundles, md, mdParts, size, verdict,
                   headings, seen, headingIDs,
                   slugVars,
                   indexVars,
                   domVars,
                   workerVars,
                   crawlVars,
                   runVars,
                   menuVars>>

NextBundle == CallBundleParts \/ CallWriteMarkdownParts

SpecBundle == InitBundle /\ [][NextBundle]_vars

-----------------------------------------------------------------------------
(* Properties of the bundler.                                              *)

\* a size is within every configured ceiling
WithinLimits(c, sz) ==
    /\ c.MaxBytes > 0 => sz.bytes <= c.MaxBytes
    /\ c.MaxChars > 0 => sz.chars <= c.MaxChars
    /\ c.MaxTokens > 0 => sz.tokens <= c.MaxTokens

OnlyMaxBytes(c) == c.MaxBytes > 0 /\ c.MaxChars = 0 /\ c.MaxTokens = 0

RECURSIVE Flatten(_)
Flatten(ss) == IF ss = <<>> THEN <<>> ELSE Head(ss) \o Flatten(Tail(ss))

RECURSIVE StripSpace(_)
StripSpace(s) ==
    IF s = <<>> THEN <<>>
    ELSE IF IsSpace(Head(s)) THEN StripSpace(Tail(s))
    ELSE <<Head(s)>> \o StripSpace(Tail(s))

IsBlank(s) == \A i \in 1..Len(s) : IsSpace(s[i])

\* the non-blank sections, each trimmed and terminated by one newline
RECURSIVE Norms(_)
Norms(ps) ==
    IF ps = <<>> THEN <<>>
    ELSE IF IsBlank(Head(ps)) THEN Norms(Tail(ps))
    ELSE <<TrimSpace(Head(ps)) \o NL>> \o Norms(Tail(ps))

RECURSIVE SumSizes(_)
SumSizes(ss) ==
    IF ss = <<>> THEN ZeroSize
    ELSE LET h == Head(ss)
             r == SumSizes(Tail(ss))
         IN [bytes |-> ByteLen(h) + r.bytes,
             chars |-> Len(h) + r.chars,
             tokens |-> (Len(h) + 3) \div 4 + r.tokens]

\* bs is ns cut into consecutive groups, a section outside the limits alone in its group
RECURSIVE Grouped(_, _, _)
Grouped(bs, ns, c) ==
    IF bs = <<>> THEN ns = <<>>
    ELSE \E k \in 1..Len(ns) :
            /\ Head(bs) = Flatten(SubSeq(ns, 1, k))
            /\ k > 1 => \A i \in 1..k : WithinLimits(c, SumSizes(<<ns[i]>>))
            /\ Grouped(Tail(bs), SubSeq(ns, k + 1, Len(ns)), c)

S_content == <<"c", "o", "n", "t", "e", "n", "t">>
MdPath == OutputDir \o <<"/">> \o S_content_md
PartDir == OutputDir \o <<"/">> \o S_content

\* part-00i.md, written out for the part numbers of the model
ExpectedPartName(i) == <<"p", "a", "r", "t", "-", "0", "0">> \o <<Digit(i)>> \o S_md

C2_SectionsWholeAndInOrder ==
    pc = "bundled" =>
        /\ Grouped(bundles, Norms(parts), limits)
        /\ StripSpace(Flatten(bundles)) = StripSpace(Flatten(parts))

C2_Witness ==
    /\ pc = "bundled"
    /\ Len(bundles) >= 2
    /\ Len(bundles) < Len(Norms(parts))
    /\ \E j \in 1..Len(bundles) : ~WithinLimits(limits, SumSizes(<<bundles[j]>>))

\* C3 as stated: no split when the limits are disabled or the whole input, measured
\* in each configured unit, is within that limit.
C3_AsStated ==
    LET whole == Flatten(parts)
        total == [bytes |-> ByteLen(whole), chars |-> Len(whole),
                  tokens |-> (Len(whole) + 3) \div 4]
    IN (pc = "bundled" /\ (~(limits.MaxBytes > 0 \/ limits.MaxChars > 0 \/ limits.MaxTokens > 0)
                            \/ WithinLimits(limits, total)))
       => Len(bundles) <= 1

\* C3, amended: no split (at most one bundle, one file written) when the limits are
\* disabled or the sizes of the non-blank sections, each trimmed and terminated by
\* a newline and measured on its own, add up to at most every configured limit.
C3_NoSplitWithinLimits ==
    LET fits == \/ ~(limits.MaxBytes > 0 \/ limits.MaxChars > 0 \/ limits.MaxTokens > 0)
                \/ WithinLimits(limits, SumSizes(Norms(parts)))
    IN /\ (pc = "bundled" /\ fits) => Len(bundles) <= 1
       /\ (pc = "written" /\ fits) =>
              /\ DOMAIN files = {MdPath}
              /\ files[MdPath] = Flatten(parts)
              /\ PartDir \notin dirs

C3_Witness ==
    /\ pc = "bundled"
    /\ Len(Norms(parts)) >= 2
    /\ limits.MaxBytes = SumSizes(Norms(parts)).bytes
    /\ limits.MaxTokens = SumSizes(Norms(parts)).tokens
    /\ Len(bundles) = 1

\* C5: WriteMarkdownParts with N > 1 bundles writes exactly part-001.md .. part-N.md
\* under <dir>/content/, bundle i in part i, and at the original path an index that
\* states N parts and lists each part once; otherwise it writes only the
\* concatenated input at the original path and creates no part directory.
C5_PartsAndIndexOnlyWhenSplit ==
    pc = "written" =>
        LET bs == bundleParts(parts, limits)
            n == Len(bs)
            partPath(i) == PartDir \o <<"/">> \o ExpectedPartName(i)
        IN IF (limits.MaxBytes > 0 \/ limits.MaxChars > 0 \/ limits.MaxTokens > 0) /\ n > 1
           THEN /\ DOMAIN files = {MdPath} \cup {partPath(i) : i \in 1..n}
                /\ \A i \in 1..n : files[partPath(i)] = bs[i]
                /\ PartDir \in dirs
                /\ Contains(files[MdPath], S_split_into \o <<Digit(n)>> \o S_parts_colon \o NL)
                /\ \A i \in 1..n :
                       Count(files[MdPath], S_content \o <<"/">> \o ExpectedPartName(i) \o NL) = 1
                /\ Count(files[MdPath], S_part) = n
           ELSE /\ DOMAIN files = {MdPath}
                /\ files[MdPath] = Flatten(parts)
                /\ PartDir \notin dirs

C5_Witness ==
    /\ pc = "written"
    /\ Cardinality(DOMAIN files) >= 4
    /\ PartDir \in dirs

-----------------------------------------------------------------------------
(* The limits' specification: one call of ChunkLimits.exceeds or Enabled.  *)

MaxSize == 3

SizeSet == [bytes : 0..MaxSize, chars : 0..MaxSize, tokens : 0..MaxSize]

LimitSet == [MaxBytes : 0..(MaxSize - 1), MaxChars : 0..(MaxSize - 1), MaxTokens : 0..(MaxSize - 1)]

InitLimits ==
    /\ pc = "init"
    /\ limits \in LimitSet
    /\ size \in SizeSet
    /\ parts = <<>>
    /\ bundles = <<>>
    /\ md = <<>>
    /\ mdParts = <<>>
    /\ files = NoFiles
    /\ dirs = {}
    /\ verdict = [exceeds |-> FALSE, enabled |-> FALSE]
    /\ headings = <<>>
    /\ seen = {}
    /\ headingIDs = <<>>
    /\ SlugIdle
    /\ IndexIdle
    /\ DomIdle
    /\ WorkerIdle
    /\ CrawlIdle
    /\ RunIdle
    /\ MenuIdle

CallExceeds ==
    /\ pc = "init"
    /\ verdict' = [verdict EXCEPT !.exceeds = exceeds(limits, size)]
    /\ pc' = "exceeds"
    /\ UNCHANGED <<limits, parts, bundles, md, mdParts, files, dirs, size,
                   headings, seen, headingIDs,
                   slugVars,
                   indexVars,
                   domVars,
                   workerVars,
                   crawlVars,
                   runVars,
                   menuVars>>

CallEnabled ==
    /\ pc = "init"
    /\ verdict' = [verdict EXCEPT !.enabled = Enabled(limits)]
    /\ pc' = "enabled"
    /\ UNCHANGED <<limits, parts, bundles, md, mdParts, files, dirs, size,
                   headings, seen, headingIDs,
                   slugVars,
                   indexVars,
                   domVars,
                   workerVars,
                   crawlVars,
                   runVars,
                   menuVars>>

NextLimits == CallExceeds \/ CallEnabled

SpecLimits == InitLimits /\ [][NextLimits]_vars

\* C4: exceeds is true exactly when some positive ceiling is strictly smaller than
\* the matching component of the size (one surpassed metric is enough, a ceiling
\* of 0 never counts), and Enabled is true exactly when some ceiling is positive.
C4_ExceedsIsOrOverCeilings ==
    /\ pc = "exceeds" =>
         (verdict.exceeds <=>
            \E m \in {<<limits.MaxBytes, size.bytes>>, <<limits.MaxChars, size.chars>>,
                      <<limits.MaxTokens, size.tokens>>} : m[1] > 0 /\ m[1] < m[2])
    /\ pc = "enabled" =>
         (verdict.enabled <=> \E v \in {limits.MaxBytes, limits.MaxChars, limits.MaxTokens} : v > 0)

\* one ceiling surpassed, another configured and respected, the third not
\* configured although the size is positive there
C4_Witness ==
    /\ pc = "exceeds"
    /\ verdict.exceeds
    /\ limits.MaxBytes > 0 /\ size.bytes <= limits.MaxBytes
    /\ limits.MaxChars > 0 /\ size.chars > limits.MaxChars
    /\ limits.MaxTokens = 0 /\ size.tokens > 0

-----------------------------------------------------------------------------
(* The splitter's specification: one call of splitMarkdownByHeadings or of *)
(* writeMarkdownFile on one section's markdown.                            *)

MaxLines == 5
MaxSplitBytes == 9

LineKinds == {"blank", "head", "sub", "text"}

\* the line of the given kind at position i of the markdown
LineOf(kind, i) ==
    CASE kind = "blank" -> <<>>
      [] kind = "head"  -> <<"#", " ", Letters[i]>>
      [] kind = "sub"   -> <<"#", "#", "#", " ", Letters[i]>>
      [] kind = "text"  -> <<Letters[i], "U">>

Markdowns ==
    UNION {{Join([i \in 1..n |-> LineOf(ks[i], i)], NL) : ks \in [1..n -> LineKinds]} :
           n \in 0..MaxLines}

\* MaxBytes alone at every value up to the bound, MaxChars alone, MaxTokens alone,
\* and the three together
SplitLimits ==
    {[MaxBytes |-> b, MaxChars |-> 0, MaxTokens |-> 0] : b \in 0..MaxSplitBytes}
    \cup {[MaxBytes |-> 0, MaxChars |-> c, MaxTokens |-> 0] : c \in {4, 7}}
    \cup {[MaxBytes |-> 0, MaxChars |-> 0, MaxTokens |-> k] : k \in {1, 3}}
    \cup {[MaxBytes |-> 8, MaxChars |-> 6, MaxTokens |-> 3]}

\* the path writeNodes hands to writeMarkdownFile: <base>/<slug of the node's title>
SectionPath == <<"o", "/", "s", "/", "x">>

InitSplit ==
    /\ pc = "init"
    /\ limits \in SplitLimits
    /\ md \in Markdowns
    /\ parts = <<>>
    /\ bundles = <<>>
    /\ mdParts = <<>>
    /\ files = NoFiles
    /\ dirs = {}
    /\ size = ZeroSize
    /\ verdict = [exceeds |-> FALSE, enabled |-> FALSE]
    /\ headings = <<>>
    /\ seen = {}
    /\ headingIDs = <<>>
    /\ SlugIdle
    /\ IndexIdle
    /\ DomIdle
    /\ WorkerIdle
    /\ CrawlIdle
    /\ RunIdle
    /\ MenuIdle

CallSplitMarkdownByHeadings ==
    /\ pc = "init"
    /\ mdParts' = splitMarkdownByHeadings(md, limits)
    /\ pc' = "split"
    /\ UNCHANGED <<limits, parts, bundles, md, files, dirs, size, verdict,
                   headings, seen, headingIDs,
                   slugVars,
                   indexVars,
                   domVars,
                   workerVars,
                   crawlVars,
                   runVars,
                   menuVars>>

CallWriteMarkdownFile ==
    /\ pc = "init"
    /\ LET fs == writeMarkdownFile([files |-> files, dirs |-> dirs], SectionPath, md, limits)
       IN /\ files' = fs.files
          /\ dirs' = fs.dirs
    /\ pc' = "fileWritten"
    /\ UNCHANGED <<limits, parts, bundles, md, mdParts, size, verdict,
                   headings, seen, headingIDs,
                   slugVars,
                   indexVars,
                   domVars,
                   workerVars,
                   crawlVars,
                   runVars,
                   menuVars>>

NextSplit == CallSplitMarkdownByHeadings

SpecSplit == InitSplit /\ [][NextSplit]_vars

NextSectionFile == CallWriteMarkdownFile

SpecSectionFile == InitSplit /\ [][NextSectionFile]_vars

-----------------------------------------------------------------------------
(* Properties of the splitter.                                             *)

\* the non-blank lines of a text, each trimmed
RECURSIVE trimmedNonBlank(_)
trimmedNonBlank(ls) ==
    IF ls = <<>> THEN <<>>
    ELSE IF IsBlank(Head(ls)) THEN trimmedNonBlank(Tail(ls))
    ELSE <<TrimSpace(Head(ls))>> \o trimmedNonBlank(Tail(ls))

NonBlankLines(s) == trimmedNonBlank(Split(s, NL))

\* the section's own heading: its first non-blank line when that starts with #
HeadingLineOf(m) ==
    LET ls == NonBlankLines(m)
    IN IF ls # <<>> /\ Head(ls)[1] = "#" THEN Head(ls) ELSE <<>>

\* the non-blank lines after the section's own heading
BodyLinesOf(m) ==
    LET ls == NonBlankLines(m)
    IN IF ls # <<>> /\ Head(ls)[1] = "#" THEN Tail(ls) ELSE ls

\* the non-blank lines of a part, without the heading line it repeats
PartBodyLines(part, h) ==
    LET ls == NonBlankLines(part)
    IN IF h # <<>> /\ ls # <<>> /\ Head(ls) = h THEN Tail(ls) ELSE ls

RECURSIVE AllBodyLines(_, _)
AllBodyLines(ps, h) ==
    IF ps = <<>> THEN <<>> ELSE PartBodyLines(Head(ps), h) \o AllBodyLines(Tail(ps), h)

Oversized(m, c) == ~WithinLimits(c, SumSizes(<<TrimSpace(m)>>))

HasSubheading(m) ==
    \E i \in 1..Len(NonBlankLines(m)) : HasPrefix(NonBlankLines(m)[i], <<"#", "#", "#">>)

SectionFile == SectionPath \o S_md

\* C6: for a section's markdown that exceeds the limits, the non-blank lines of the
\* emitted parts, each part taken without the heading line it repeats, are in order
\* exactly the non-blank lines of the body: every sub-heading block and paragraph
\* once, none missing, none reordered.
C6_BodyPreserved ==
    (pc = "split" /\ Oversized(md, limits))
    => AllBodyLines(mdParts, HeadingLineOf(md)) = BodyLinesOf(md)

\* a section with its own heading, split into three or more parts at a sub-heading
\* and at a paragraph break
C6_Witness ==
    /\ pc = "split" /\ Oversized(md, limits)
    /\ HeadingLineOf(md) # <<>>
    /\ Count(md, <<"#", "#", "#", " ">>) = 1
    /\ Len(mdParts) >= 3
    /\ \A i \in 1..Len(mdParts) :
           /\ HasPrefix(mdParts[i], HeadingLineOf(md))
           /\ PartBodyLines(mdParts[i], HeadingLineOf(md)) # <<>>

\* C7 as stated: whatever the limits, every non-blank line of the section's
\* markdown, its heading line included, is a line of some emitted part.
C7_AsStated ==
    pc = "split" =>
        \A i \in 1..Len(NonBlankLines(md)) :
            \E p \in 1..Len(mdParts) :
                \E j \in 1..Len(NonBlankLines(mdParts[p])) :
                    NonBlankLines(mdParts[p])[j] = NonBlankLines(md)[i]

\* C8 as stated: when the splitter yields at most one part, writeMarkdownFile writes
\* the unsplit markdown to <base>.md and creates no part directory and no index.
C8_AsStated ==
    (pc = "fileWritten" /\ Len(splitMarkdownByHeadings(md, limits)) <= 1)
    => /\ DOMAIN files = {SectionFile}
       /\ files[SectionFile] = md
       /\ SectionPath \notin dirs

\* C9 as stated: with limits enabled, a section that exceeds them and has no
\* sub-heading of level 3 or deeper stays intact: it is not split across part files
\* (at most one part file is written) and one file holds its whole body.
C9_AsStated ==
    (pc = "fileWritten" /\ ~WithinLimits(limits, SumSizes(<<md>>)) /\ ~HasSubheading(md))
    => /\ Cardinality(DOMAIN files \ {SectionFile}) <= 1
       /\ \E p \in DOMAIN files : \A i \in 1..Len(BodyLinesOf(md)) :
              \E j \in 1..Len(NonBlankLines(files[p])) :
                  NonBlankLines(files[p])[j] = BodyLinesOf(md)[i]

-----------------------------------------------------------------------------
(* The heading-ID resolver: slugifyHeading and deduplicateID.              *)

UpperCase == <<"A", "B", "C", "D", "E", "F", "G", "H", "I", "J", "K", "L", "M", "N", "O", "P", "Q", "R", "S", "T", "U", "V", "W", "X", "Y", "Z">>
LowerCase == <<"a", "b", "c", "d", "e", "f", "g", "h", "i", "j", "k", "l", "m", "n", "o", "p", "q", "r", "s", "t", "u", "v", "w", "x", "y", "z">>

\* strings.ToLower on one character
lowerChar(c) ==
    IF \E i \in 1..26 : UpperCase[i] = c
    THEN LowerCase[CHOOSE i \in 1..26 : UpperCase[i] = c]
    ELSE c

ToLower(s) == [i \in 1..Len(s) |-> lowerChar(s[i])]

\* the characters slugRegexp, [^a-z0-9]+, does not match
isSlugChar(c) ==
    \/ \E i \in 1..26 : LowerCase[i] = c
    \/ c \in {"0", "1", "2", "3", "4", "5", "6", "7", "8", "9"}

\* slugRegexp.ReplaceAllString(s, "_"): every maximal run of other characters
\* becomes one underscore
RECURSIVE replaceRuns(_, _)
replaceRuns(s, inRun) ==
    IF s = <<>> THEN <<>>
    ELSE IF isSlugChar(Head(s)) THEN <<Head(s)>> \o replaceRuns(Tail(s), FALSE)
    ELSE IF inRun THEN replaceRuns(Tail(s), TRUE)
    ELSE <<"_">> \o replaceRuns(Tail(s), TRUE)

\* strings.Trim(s, "_")
TrimUnderscores(s) ==
    LET keep == {i \in 1..Len(s) : s[i] # "_"}
    IN IF keep = {} THEN <<>>
       ELSE SubSeq(s, CHOOSE i \in keep : \A j \in keep : i <= j,
                      CHOOSE i \in keep : \A j \in keep : j <= i)

\* mutant of slugifyHeading: the underscores are trimmed before the runs are replaced
slugifyHeading_trimFirst(t) == replaceRuns(TrimUnderscores(TrimSpace(ToLower(t))), FALSE)

slugifyHeading(t) == TrimUnderscores(replaceRuns(TrimSpace(ToLower(t)), FALSE))

\* mutant of dedupProbe: the suffixed id is returned without a look at the ids taken
dedupProbe_noCheck(id, taken, counter) ==
    [id |-> id \o <<"_">> \o Itoa(counter), seen |-> taken \cup {id \o <<"_">> \o Itoa(counter)}]

\* the loop of deduplicateID: id_counter, id_(counter+1), ... until one is unused
RECURSIVE dedupProbe(_, _, _)
dedupProbe(id, taken, counter) ==
    LET newID == id \o <<"_">> \o Itoa(counter)
    IN IF newID \notin taken THEN [id |-> newID, seen |-> taken \cup {newID}]
       ELSE dedupProbe(id, taken, counter + 1)

\* mutant of deduplicateID: the first use of an id is not recorded in the seen-set
deduplicateID_noRecord(id, taken) ==
    IF id = <<>> THEN [id |-> <<>>, seen |-> taken]
    ELSE IF id \notin taken THEN [id |-> id, seen |-> taken]
    ELSE [id |-> id \o <<"_", "2">>, seen |-> taken \cup {id \o <<"_", "2">>}]

\* deduplicateID returns the id and leaves the seen-set updated
deduplicateID(id, taken) ==
    IF id = <<>> THEN [id |-> <<>>, seen |-> taken]
    ELSE IF id \notin taken THEN [id |-> id, seen |-> taken \cup {id}]
    ELSE dedupProbe(id, taken, 2)

\* steps 1 and 4 of Parse's callback: the id attribute, else the id of the first
\* descendant that has one, else the slug of the trimmed text
rawHeadingID(h) ==
    IF h.id # <<>> THEN h.id
    ELSE IF h.childID # <<>> THEN h.childID
    ELSE slugifyHeading(TrimSpace(h.text))

-----------------------------------------------------------------------------
(* Parse's specification: the callback of doc.Find("h1, ..., h6").Each,    *)
(* once per heading element in document order.                             *)

MaxHeadings == 4

\* a heading element: its id attribute, the id of its first descendant with an id
\* attribute, and its text
HeadingChoices ==
    {[id |-> <<>>, childID |-> <<>>, text |-> <<"A", " ", "b">>],
     [id |-> <<>>, childID |-> <<>>, text |-> <<" ", "a", "-", "B", "!">>],
     [id |-> <<>>, childID |-> <<>>, text |-> <<"!", "?">>],
     [id |-> <<"a", "_", "b", "_", "2">>, childID |-> <<>>, text |-> <<"x">>],
     [id |-> <<>>, childID |-> <<"a", "_", "b">>, text |-> <<"c">>],
     [id |-> <<"a", "_", "b">>, childID |-> <<>>, text |-> <<"A", " ", "b">>]}

Documents == UNION {[1..n -> HeadingChoices] : n \in 0..MaxHeadings}

InitParse ==
    /\ pc = "parse"
    /\ headings \in Documents
    /\ seen = {}
    /\ headingIDs = <<>>
    /\ limits = NoLimits
    /\ parts = <<>>
    /\ bundles = <<>>
    /\ md = <<>>
    /\ mdParts = <<>>
    /\ files = NoFiles
    /\ dirs = {}
    /\ size = ZeroSize
    /\ verdict = [exceeds |-> FALSE, enabled |-> FALSE]
    /\ SlugIdle
    /\ IndexIdle
    /\ DomIdle
    /\ WorkerIdle
    /\ CrawlIdle
    /\ RunIdle
    /\ MenuIdle

ParseHeading ==
    /\ pc = "parse"
    /\ Len(headingIDs) < Len(headings)
    /\ LET h == headings[Len(headingIDs) + 1]
           r == deduplicateID(rawHeadingID(h), seen)
       IN /\ headingIDs' = Append(headingIDs, r.id)
          /\ seen' = r.seen
    /\ UNCHANGED <<pc, limits, parts, bundles, md, mdParts, files, dirs, size, verdict,
                   headings,
                   slugVars,
                   indexVars,
                   domVars,
                   workerVars,
                   crawlVars,
                   runVars,
                   menuVars>>

ParseReturn ==
    /\ pc = "parse"
    /\ Len(headingIDs) = Len(headings)
    /\ pc' = "parsed"
    /\ UNCHANGED <<limits, parts, bundles, md, mdParts, files, dirs, size, verdict,
                   headings, seen, headingIDs,
                   slugVars,
                   indexVars,
                   domVars,
                   workerVars,
                   crawlVars,
                   runVars,
                   menuVars>>

NextParse == ParseHeading \/ ParseReturn

SpecParse == InitParse /\ [][NextParse]_vars

\* every heading of the document has the same text and neither an id attribute nor
\* a descendant with one
SameTextNoIDs ==
    \A i \in 1..Len(headings) :
        /\ headings[i].text = headings[1].text
        /\ headings[i].id = <<>>
        /\ headings[i].childID = <<>>

\* base, base_2, base_3, ...: the id expected for the i-th of the identical headings
Suffixed(base, i) == IF i = 1 THEN base ELSE base \o <<"_", Digit(i)>>

\* C10 as stated: N headings with the same text and no ids resolve, in document
\* order, to base, base_2, ..., base_N, base being the slug of the text.
C10_AsStated ==
    (pc = "parsed" /\ SameTextNoIDs)
    => \A i \in 1..Len(headingIDs) :
           headingIDs[i] = Suffixed(slugifyHeading(headings[1].text), i)

\* C10, amended: N headings with the same text, whose slug is not empty, and no ids
\* resolve, in document order, to base, base_2, ..., base_N; when the slug is empty
\* every one of the N heading ids is empty.
C10_DedupMonotonic ==
    (pc = "parsed" /\ SameTextNoIDs)
    => /\ Len(headingIDs) = Len(headings)
       /\ \A i \in 1..Len(headingIDs) :
              headingIDs[i] = IF slugifyHeading(headings[1].text) = <<>> THEN <<>>
                              ELSE Suffixed(slugifyHeading(headings[1].text), i)

C10_Witness ==
    /\ pc = "parsed" /\ SameTextNoIDs
    /\ Len(headingIDs) >= 3
    /\ headingIDs[1] = <<"a", "_", "b">>
    /\ headingIDs[3] = <<"a", "_", "b", "_", "3">>

\* C11: within one parsed document the non-empty resolved heading ids are pairwise
\* distinct (so no suffixed form is handed out twice, whether an id comes from an
\* id attribute, a descendant's id or the slug of the text), every non-empty id
\* handed out is recorded as taken, and a heading whose candidate id is empty
\* keeps the empty id.
C11_ResolvedIDsDistinct ==
    /\ \A i, j \in 1..Len(headingIDs) :
           (i < j /\ headingIDs[i] # <<>>) => headingIDs[i] # headingIDs[j]
    /\ seen = {headingIDs[i] : i \in 1..Len(headingIDs)} \ {<<>>}
    /\ \A i \in 1..Len(headingIDs) :
           (headingIDs[i] = <<>>) <=> (rawHeadingID(headings[i]) = <<>>)

\* an id attribute equal to a generated form comes first, the two colliding
\* headings after it skip that form; an empty id sits between two others
C11_Witness ==
    /\ pc = "parsed"
    /\ Len(headingIDs) = 4
    /\ headings[1].id = <<"a", "_", "b", "_", "2">>
    /\ headingIDs[2] = <<"a", "_", "b">>
    /\ headingIDs[3] = <<>>
    /\ headingIDs[4] = <<"a", "_", "b", "_", "3">>

-----------------------------------------------------------------------------
(* slugifyHeading's specification: the slug of a heading text, the slug of *)
(* that slug, and the slug put through deduplicateID with an empty         *)
(* seen-set.                                                               *)

MaxTextLen == 3

\* characters of a heading text: a capital, a letter, a digit, a space, a
\* punctuation mark and the underscore
TextChars == {"A", "b", "2", " ", "!", "_"}

HeadingTexts == UNION {[1..n -> TextChars] : n \in 0..MaxTextLen}

InitSlug ==
    /\ pc = "init"
    /\ text \in HeadingTexts
    /\ slug = <<>>
    /\ limits = NoLimits
    /\ parts = <<>>
    /\ bundles = <<>>
    /\ md = <<>>
    /\ mdParts = <<>>
    /\ files = NoFiles
    /\ dirs = {}
    /\ size = ZeroSize
    /\ verdict = [exceeds |-> FALSE, enabled |-> FALSE]
    /\ headings = <<>>
    /\ seen = {}
    /\ headingIDs = <<>>
    /\ IndexIdle
    /\ DomIdle
    /\ WorkerIdle
    /\ CrawlIdle
    /\ RunIdle
    /\ MenuIdle

CallSlugifyHeading ==
    /\ pc = "init"
    /\ pc' = "slugified"
    /\ slug' = <<slugifyHeading(text)>>
    /\ UNCHANGED <<limits, parts, bundles, md, mdParts, files, dirs, size, verdict,
                   headings, seen, headingIDs, text,
                   indexVars,
                   domVars,
                   workerVars,
                   crawlVars,
                   runVars,
                   menuVars>>

CallSlugifyHeadingAgain ==
    /\ pc = "slugified"
    /\ pc' = "reslugified"
    /\ slug' = Append(slug, slugifyHeading(slug[1]))
    /\ UNCHANGED <<limits, parts, bundles, md, mdParts, files, dirs, size, verdict,
                   headings, seen, headingIDs, text,
                   indexVars,
                   domVars,
                   workerVars,
                   crawlVars,
                   runVars,
                   menuVars>>

\* deduplicateID on the slug of the slug, with a fresh headingIDSet
CallDeduplicateID ==
    /\ pc = "reslugified"
    /\ pc' = "deduplicated"
    /\ LET r == deduplicateID(slug[2], {})
       IN /\ headingIDs' = <<r.id>>
          /\ seen' = r.seen
    /\ UNCHANGED <<limits, parts, bundles, md, mdParts, files, dirs, size, verdict,
                   headings, text, slug,
                   indexVars,
                   domVars,
                   workerVars,
                   crawlVars,
                   runVars,
                   menuVars>>

NextSlug == CallSlugifyHeading \/ CallSlugifyHeadingAgain \/ CallDeduplicateID

SpecSlug == InitSlug /\ [][NextSlug]_vars

\* C12: the slug of a slug is that slug, deduplicateID with a fresh seen-set
\* returns it unchanged, and the empty text has the empty slug.
C12_SlugIdempotent ==
    /\ pc \in {"reslugified", "deduplicated"} => slug[2] = slug[1]
    /\ pc = "deduplicated" => headingIDs = <<slug[1]>>
    /\ (pc # "init" /\ text = <<>>) => slug[1] = <<>>

\* a text that is not its own slug, taken through the three calls
C12_Witness ==
    /\ pc = "deduplicated"
    /\ text = <<"!", "A", "_">>
    /\ slug = <<<<"a">>, <<"a">>>>
    /\ headingIDs = <<<<"a">>>>

-----------------------------------------------------------------------------
(* The index builder: WriteIndex.                                          *)

S_index_jsonl == <<"i", "n", "d", "e", "x", ".", "j", "s", "o", "n", "l">>
S_arrow == <<" ", ">", " ">>
S_bar == <<"|">>
S_hash == <<"#">>

\* the levels a heading element can have: headingLevelFromTag on h1..h6
Levels == {1, 2, 3}

\* mutant of setLevel: the deeper levels are kept
setLevel_keepDeeper(h, level, heading) ==
    [k \in (DOMAIN h) \cup {level} |-> IF k = level THEN heading ELSE h[k]]

\* hierarchy[level] = text, then every deeper level deleted
setLevel(h, level, heading) ==
    [k \in {j \in (DOMAIN h) \cup {level} : j <= level} |->
        IF k = level THEN heading ELSE h[k]]

\* the loop over i = 1..6 that collects the texts of the levels present
RECURSIVE pathParts(_, _)
pathParts(h, i) ==
    IF i > 6 THEN <<>>
    ELSE (IF i \in DOMAIN h THEN <<h[i]>> ELSE <<>>) \o pathParts(h, i + 1)

headingPathOf(h) == Join(pathParts(h, 1), S_arrow)

\* hex.EncodeToString(sha256.Sum256(raw))[:16]: the digest is not computed, it is
\* named by the bytes that were hashed
stableIDOf(raw) == <<"s", "h", "a", "(">> \o raw \o <<")">>

\* mutant of tokenEstimateOf: characters are counted, not bytes
tokenEstimateOf_chars(contentHTML) == Len(contentHTML) \div 4

\* len(sec.ContentHTML) / 4
tokenEstimateOf(contentHTML) == ByteLen(contentHTML) \div 4

\* the IndexRecord built for a section, given the hierarchy as updated for it
indexRecord(baseURL, sec, h) ==
    LET headingPath == headingPathOf(h)
    IN [ID            |-> stableIDOf(baseURL \o S_bar \o headingPath \o S_bar \o sec.HeadingID),
        URL           |-> baseURL,
        SourceURL     |-> baseURL \o S_hash \o sec.HeadingID,
        Heading       |-> sec.HeadingText,
        HeadingLevel  |-> sec.HeadingLevel,
        HeadingPath   |-> headingPath,
        Content       |-> TrimSpace(sec.ContentHTML),
        TokenEstimate |-> tokenEstimateOf(sec.ContentHTML)]

\* encoding/json's string encoder, with its HTML escaping, on one character
jsonEscape(c) ==
    CASE c = "\"" -> <<"\\", "\"">>
      [] c = "\\" -> <<"\\", "\\">>
      [] c = "\n" -> <<"\\", "n">>
      [] c = "\r" -> <<"\\", "r">>
      [] c = "\t" -> <<"\\", "t">>
      [] c = "<"  -> <<"\\", "u", "0", "0", "3", "c">>
      [] c = ">"  -> <<"\\", "u", "0", "0", "3", "e">>
      [] c = "&"  -> <<"\\", "u", "0", "0", "2", "6">>
      [] OTHER    -> <<c>>

RECURSIVE jsonEscapeAll(_, _)
jsonEscapeAll(s, i) ==
    IF i > Len(s) THEN <<>> ELSE jsonEscape(s[i]) \o jsonEscapeAll(s, i + 1)

jsonString(s) == <<"\"">> \o jsonEscapeAll(s, 1) \o <<"\"">>

jsonField(key, value) == <<"\"">> \o key \o <<"\"", ":">> \o value

\* json.Marshal(rec): the fields in the order of the struct, under their json tags
jsonMarshal(rec) ==
    <<"{">>
    \o jsonField(<<"i", "d">>, jsonString(rec.ID)) \o <<",">>
    \o jsonField(<<"u", "r", "l">>, jsonString(rec.URL)) \o <<",">>
    \o jsonField(<<"s", "o", "u", "r", "c", "e", "_", "u", "r", "l">>,
                 jsonString(rec.SourceURL)) \o <<",">>
    \o jsonField(<<"h", "e", "a", "d", "i", "n", "g">>, jsonString(rec.Heading)) \o <<",">>
    \o jsonField(<<"h", "e", "a", "d", "i", "n", "g", "_", "l", "e", "v", "e", "l">>,
                 Itoa(rec.HeadingLevel)) \o <<",">>
    \o jsonField(<<"h", "e", "a", "d", "i", "n", "g", "_", "p", "a", "t", "h">>,
                 jsonString(rec.HeadingPath)) \o <<",">>
    \o jsonField(<<"c", "o", "n", "t", "e", "n", "t">>, jsonString(rec.Content)) \o <<",">>
    \o jsonField(<<"t", "o", "k", "e", "n", "_", "e", "s", "t", "i", "m", "a", "t", "e">>,
                 Itoa(rec.TokenEstimate))
    \o <<"}">>

-----------------------------------------------------------------------------
(* WriteIndex's specification: the file is created, then one step of the   *)
(* loop per section, then the return.  json.Marshal's error branch is      *)
(* taken for at most one record of a run.                                  *)

MaxSections == 5

IndexStyles == {"plain", "awkward", "same"}

BaseURL == <<"u">>

\* the section at position i of a document of the given style
SectionAt(style, i, level) ==
    CASE style = "plain" ->
           [HeadingText |-> <<UpperCase[i]>>, HeadingLevel |-> level,
            HeadingID |-> <<Letters[i]>>,
            ContentHTML |-> <<"<", "p", ">", Letters[i], "<", "/", "p", ">">>]
      [] style = "same" ->
           [HeadingText |-> <<"!">>, HeadingLevel |-> level, HeadingID |-> <<>>,
            ContentHTML |-> <<"<", "b", "r", "/", ">">>]
      [] style = "awkward" /\ i % 4 = 1 ->
           [HeadingText |-> <<UpperCase[i]>>, HeadingLevel |-> level, HeadingID |-> <<>>,
            ContentHTML |-> <<" ", "<", "b", ">", " ">>]
      [] style = "awkward" /\ i % 4 = 2 ->
           [HeadingText |-> <<>>, HeadingLevel |-> level, HeadingID |-> <<>>,
            ContentHTML |-> <<"<", "U", ">">>]
      [] style = "awkward" /\ i % 4 = 3 ->
           [HeadingText |-> <<UpperCase[i], "\n", "\"">>, HeadingLevel |-> level,
            HeadingID |-> <<Letters[i]>>, ContentHTML |-> <<>>]
      [] style = "awkward" /\ i % 4 = 0 ->
           [HeadingText |-> <<UpperCase[i], "&">>, HeadingLevel |-> level,
            HeadingID |-> <<Letters[i]>>, ContentHTML |-> <<"\n", "<", "p", ">", "\n">>]

SectionLists ==
    UNION {{[i \in 1..n |-> SectionAt(style, i, lv[i])] : lv \in [1..n -> Levels]} :
           n \in 0..MaxSections, style \in IndexStyles}

IndexPath == PathJoin(OutputDir, S_index_jsonl)

InitIndex ==
    /\ pc = "init"
    /\ sections \in SectionLists
    /\ hierarchy = <<>>
    /\ pos = 0
    /\ records = <<>>
    /\ limits = NoLimits
    /\ parts = <<>>
    /\ bundles = <<>>
    /\ md = <<>>
    /\ mdParts = <<>>
    /\ files = NoFiles
    /\ dirs = {}
    /\ size = ZeroSize
    /\ verdict = [exceeds |-> FALSE, enabled |-> FALSE]
    /\ headings = <<>>
    /\ seen = {}
    /\ headingIDs = <<>>
    /\ SlugIdle
    /\ DomIdle
    /\ WorkerIdle
    /\ CrawlIdle
    /\ RunIdle
    /\ MenuIdle

\* os.MkdirAll and os.Create
CallWriteIndex ==
    /\ pc = "init"
    /\ pc' = "loop"
    /\ dirs' = dirs \cup {OutputDir}
    /\ files' = WriteFile(files, IndexPath, <<>>)
    /\ UNCHANGED <<limits, parts, bundles, md, mdParts, size, verdict,
                   headings, seen, headingIDs, slugVars, indexVars,
                   domVars,
                   workerVars,
                   crawlVars,
                   runVars,
                   menuVars>>

\* mutant of WriteIndexRecord: a marshal failure ends the write
WriteIndexRecord_abort ==
    /\ pc = "loop"
    /\ pos < Len(sections)
    /\ LET sec == sections[pos + 1]
           h   == setLevel(hierarchy, sec.HeadingLevel, sec.HeadingText)
           rec == indexRecord(BaseURL, sec, h)
       IN /\ hierarchy' = h
          /\ pos' = pos + 1
          /\ \/ /\ records' = Append(records, rec)
                /\ files' = WriteFile(files, IndexPath,
                                      files[IndexPath] \o jsonMarshal(rec) \o NL)
                /\ pc' = pc
             \/ /\ pos = Len(records)
                /\ pc' = "written"
                /\ UNCHANGED <<records, files>>
    /\ UNCHANGED <<limits, parts, bundles, md, mdParts, dirs, size, verdict,
                   headings, seen, headingIDs, slugVars, sections,
                   domVars,
                   workerVars,
                   crawlVars,
                   runVars,
                   menuVars>>

\* one pass of the loop; json.Marshal returns the line or an error
WriteIndexRecord ==
    /\ pc = "loop"
    /\ pos < Len(sections)
    /\ LET sec == sections[pos + 1]
           h   == setLevel(hierarchy, sec.HeadingLevel, sec.HeadingText)
           rec == indexRecord(BaseURL, sec, h)
       IN /\ hierarchy' = h
          /\ pos' = pos + 1
          /\ \/ /\ records' = Append(records, rec)
                /\ files' = WriteFile(files, IndexPath,
                                      files[IndexPath] \o jsonMarshal(rec) \o NL)
             \/ /\ pos = Len(records)
                /\ UNCHANGED <<records, files>>
    /\ UNCHANGED <<pc, limits, parts, bundles, md, mdParts, dirs, size, verdict,
                   headings, seen, headingIDs, slugVars, sections,
                   domVars,
                   workerVars,
                   crawlVars,
                   runVars,
                   menuVars>>

WriteIndexReturn ==
    /\ pc = "loop"
    /\ pos = Len(sections)
    /\ pc' = "written"
    /\ UNCHANGED <<limits, parts, bundles, md, mdParts, files, dirs, size, verdict,
                   headings, seen, headingIDs, slugVars, indexVars,
                   domVars,
                   workerVars,
                   crawlVars,
                   runVars,
                   menuVars>>

NextIndex == CallWriteIndex \/ WriteIndexRecord \/ WriteIndexReturn

SpecIndex == InitIndex /\ [][NextIndex]_vars

\* the section the j-th written record was built from: the j-th one, or the
\* (j+1)-th when the record of section s was skipped before it
SectionOfRecord(j, s) == IF s = 0 \/ j < s THEN j ELSE j + 1

\* the positions whose record was skipped that are consistent with the state:
\* 0 for none
SkippedAt ==
    IF Len(records) = pos THEN {0}
    ELSE {s \in 1..pos :
            \A j \in 1..Len(records) :
                records[j].Heading = sections[SectionOfRecord(j, s)].HeadingText}

\* the sections on the breadcrumb of section i: those at or before i that no
\* later section up to i has replaced or cleared, i.e. every section after them
\* up to i is deeper
Ancestors(i) ==
    {j \in 1..i : \A k \in (j + 1)..i : sections[k].HeadingLevel > sections[j].HeadingLevel}

RECURSIVE textsOf(_, _, _)
textsOf(js, j, i) ==
    IF j > i THEN <<>>
    ELSE (IF j \in js THEN <<sections[j].HeadingText>> ELSE <<>>) \o textsOf(js, j + 1, i)

ExpectedPath(i) == Join(textsOf(Ancestors(i), 1, i), <<" ", ">", " ">>)

\* C13: the headingPath of every record is the texts, joined by " > ", of the
\* levels still present once the section's own level is set and every deeper
\* level is discarded: the section's own text last, before it the latest
\* heading of each shallower level that is still open, gaps not filled.
C13_HeadingPath ==
    \E s \in SkippedAt :
        \A j \in 1..Len(records) :
            /\ records[j].HeadingPath = ExpectedPath(SectionOfRecord(j, s))
            /\ records[j].HeadingLevel = sections[SectionOfRecord(j, s)].HeadingLevel

\* levels 1,2,2,3,1 with texts A..E give A, A > B, A > C, A > C > D, E
C13_Witness ==
    /\ pc = "written"
    /\ Len(records) = 5
    /\ [i \in 1..5 |-> sections[i].HeadingLevel] = <<1, 2, 2, 3, 1>>
    /\ [i \in 1..5 |-> records[i].HeadingPath] =
         << <<"A">>,
            <<"A", " ", ">", " ", "B">>,
            <<"A", " ", ">", " ", "C">>,
            <<"A", " ", ">", " ", "C", " ", ">", " ", "D">>,
            <<"E">> >>

\* how many newlines index.jsonl holds
IndexNewlines == Cardinality({i \in 1..Len(files[IndexPath]) : files[IndexPath][i] = "\n"})

\* the JSON objects of the records from the j-th on, a newline after each
RECURSIVE LinesFrom(_)
LinesFrom(j) ==
    IF j > Len(records) THEN <<>> ELSE jsonMarshal(records[j]) \o <<"\n">> \o LinesFrom(j + 1)

\* C14: index.jsonl holds one newline-terminated JSON object per section gone
\* through, in section order, less the one whose marshalling failed, and no
\* other newline; the write goes through every section, so a failure costs that
\* record's line and no other.
C14_OneLinePerSection ==
    pc \in {"loop", "written"} =>
        /\ files[IndexPath] = LinesFrom(1)
        /\ IndexNewlines = Len(records)
        /\ Len(records) \in {pos - 1, pos}
        /\ pc = "written" => pos = Len(sections)
        /\ \E s \in (IF Len(records) = pos THEN {0} ELSE 1..pos) :
               \A j \in 1..Len(records) :
                   LET sec == sections[SectionOfRecord(j, s)]
                   IN /\ records[j].Heading = sec.HeadingText
                      /\ records[j].HeadingLevel = sec.HeadingLevel
                      /\ records[j].Content = TrimSpace(sec.ContentHTML)

\* the second of three sections fails to marshal; the first and the third, whose
\* heading holds a newline, each have their line
C14_Witness ==
    /\ pc = "written"
    /\ Len(sections) = 3
    /\ sections[3].HeadingText = <<"C", "\n", "\"">>
    /\ Len(records) = 2
    /\ records[1].Heading = <<"A">>
    /\ records[2].Heading = sections[3].HeadingText
    /\ IndexNewlines = 2
    /\ files[IndexPath] = LinesFrom(1)

\* C15 as stated: every record's tokenEstimate is the length of that record's
\* content field divided by 4, rounded down.
C15_AsStated ==
    \A j \in 1..Len(records) : records[j].TokenEstimate = ByteLen(records[j].Content) \div 4

\* C15, amended: every record's tokenEstimate is the length in bytes of its
\* section's contentHTML, as handed in and before it is trimmed for the content
\* field, divided by 4 and rounded down; it is the length of the record's content
\* divided by 4 whenever the contentHTML has no white space around it.
C15_TokenEstimate ==
    \E s \in SkippedAt :
        \A j \in 1..Len(records) :
            LET sec == sections[SectionOfRecord(j, s)]
            IN /\ records[j].TokenEstimate = ByteLen(sec.ContentHTML) \div 4
               /\ TrimSpace(sec.ContentHTML) = sec.ContentHTML
                    => records[j].TokenEstimate = ByteLen(records[j].Content) \div 4

\* a contentHTML of five bytes, two of them white space around it, and one of
\* four bytes in three characters
C15_Witness ==
    /\ Len(records) >= 2
    /\ sections[1].ContentHTML = <<" ", "<", "b", ">", " ">>
    /\ records[1].Content = <<"<", "b", ">">>
    /\ records[1].TokenEstimate = 1
    /\ records[2].Content = <<"<", "U", ">">>
    /\ records[2].TokenEstimate = 1

-----------------------------------------------------------------------------
(* The section segmenter: Parse on a document tree.  A document is the     *)
(* sequence of the nodes under body in document order; a node names its    *)
(* parent by position, 0 being body.  The node at position i has the text  *)
(* UpperCase[i] (a heading, a paragraph, a script and a text node hold     *)
(* their text directly) and, when it is an element other than a heading,   *)
(* the id attribute Digit(i).                                              *)

NodeKinds == {"h", "p", "div", "script", "text"}

NodeText(i) == <<UpperCase[i]>>

NodeID(i) == <<Digit(i)>>

IsElement(d, i) == d[i].kind # "text"

\* the selector "h1, h2, h3, h4, h5, h6"
IsHeading(d, i) == d[i].kind = "h"

\* a is i or an ancestor of i
RECURSIVE IsAncestorOrSelf(_, _, _)
IsAncestorOrSelf(d, a, i) ==
    IF i = a THEN TRUE
    ELSE IF i = 0 THEN FALSE
    ELSE IsAncestorOrSelf(d, a, d[i].parent)

Descendants(d, i) == {j \in (i + 1)..Len(d) : IsAncestorOrSelf(d, i, d[j].parent)}

\* the members of a set of positions, in document order
RECURSIVE InOrder(_)
InOrder(js) ==
    IF js = {} THEN <<>>
    ELSE LET m == CHOOSE j \in js : \A k \in js : j <= k
         IN <<m>> \o InOrder(js \ {m})

ChildNodes(d, i) == InOrder({j \in 1..Len(d) : d[j].parent = i})

\* the element siblings after node i, in document order
NextSiblings(d, i) ==
    InOrder({j \in (i + 1)..Len(d) : d[j].parent = d[i].parent /\ IsElement(d, j)})

\* ":has(h1, h2, h3, h4, h5, h6)"
HasHeading(d, i) == \E j \in Descendants(d, i) : IsHeading(d, j)

\* Selection.NextUntil: the element siblings after node i up to, and without,
\* the first one the selector matches
RECURSIVE takeUntil(_, _, _, _)
takeUntil(d, sibs, k, withHas) ==
    IF k > Len(sibs) THEN <<>>
    ELSE IF IsHeading(d, sibs[k]) \/ (withHas /\ HasHeading(d, sibs[k])) THEN <<>>
    ELSE <<sibs[k]>> \o takeUntil(d, sibs, k + 1, withHas)

NextUntil(d, i, withHas) == takeUntil(d, NextSiblings(d, i), 1, withHas)

\* goquery.NodeName
TagName(d, i) ==
    CASE d[i].kind = "h"      -> <<"h", Digit(d[i].level)>>
      [] d[i].kind = "p"      -> <<"p">>
      [] d[i].kind = "div"    -> <<"d", "i", "v">>
      [] d[i].kind = "script" -> <<"s", "c", "r", "i", "p", "t">>

\* the id attribute of an element: headings have none
AttrID(d, i) == IF d[i].kind \in {"p", "div", "script"} THEN NodeID(i) ELSE <<>>

StartTag(d, i) ==
    <<"<">> \o TagName(d, i)
    \o (IF AttrID(d, i) = <<>> THEN <<>>
        ELSE <<" ", "i", "d", "=", "\"">> \o AttrID(d, i) \o <<"\"">>)
    \o <<">">>

EndTag(d, i) == <<"<", "/">> \o TagName(d, i) \o <<">">>

\* goquery.OuterHtml: the node and its whole subtree
RECURSIVE OuterHtml(_, _)
RECURSIVE outerHtmlAll(_, _, _)
OuterHtml(d, i) ==
    CASE d[i].kind = "text" -> NodeText(i)
      [] d[i].kind = "div"  -> StartTag(d, i) \o outerHtmlAll(d, ChildNodes(d, i), 1) \o EndTag(d, i)
      [] OTHER              -> StartTag(d, i) \o NodeText(i) \o EndTag(d, i)

outerHtmlAll(d, js, k) ==
    IF k > Len(js) THEN <<>> ELSE OuterHtml(d, js[k]) \o outerHtmlAll(d, js, k + 1)

\* Selection.Text: the text nodes of the subtree, in document order
RECURSIVE TextOf(_, _)
RECURSIVE textOfAll(_, _, _)
TextOf(d, i) ==
    IF d[i].kind = "div" THEN textOfAll(d, ChildNodes(d, i), 1) ELSE NodeText(i)

textOfAll(d, js, k) ==
    IF k > Len(js) THEN <<>> ELSE TextOf(d, js[k]) \o textOfAll(d, js, k + 1)

\* s.Find("[id]"): the descendants of the node that have a non-empty id
RECURSIVE idsOf(_, _, _)
idsOf(d, js, k) ==
    IF k > Len(js) THEN <<>>
    ELSE (IF AttrID(d, js[k]) # <<>> THEN <<AttrID(d, js[k])>> ELSE <<>>) \o idsOf(d, js, k + 1)

FindIDs(d, i) == idsOf(d, InOrder(Descendants(d, i)), 1)

\* renderSelection: the html, the text and the ids of the elements of a
\* selection, script elements of the selection left out
RECURSIVE renderSelection(_, _, _)
renderSelection(d, sel, k) ==
    IF k > Len(sel) THEN [html |-> <<>>, text |-> <<>>, ids |-> <<>>]
    ELSE LET rest == renderSelection(d, sel, k + 1)
         IN IF d[sel[k]].kind = "script" THEN rest
            ELSE [html |-> OuterHtml(d, sel[k]) \o rest.html,
                  text |-> TextOf(d, sel[k]) \o <<" ">> \o rest.text,
                  ids  |-> FindIDs(d, sel[k]) \o rest.ids]

\* mutant of contentSelOf: no fallback to the siblings of the parent
contentSelOf_noFallback(d, i) == NextUntil(d, i, FALSE)

\* step 2 of Parse's callback: the siblings until the next heading, or, for a
\* heading with no sibling after it in a parent other than body, the siblings
\* of the parent until the next heading or element holding one
contentSelOf(d, i) ==
    LET contentSel == NextUntil(d, i, FALSE)
    IN IF Len(contentSel) = 0 /\ Len(NextSiblings(d, i)) = 0 /\ d[i].parent # 0
       THEN NextUntil(d, d[i].parent, TRUE)
       ELSE contentSel

\* mutant of HeadingsOf: only the headings that are children of body
HeadingsOf_topLevel(d) == InOrder({i \in 1..Len(d) : IsHeading(d, i) /\ d[i].parent = 0})

\* doc.Find("h1, h2, h3, h4, h5, h6"): the headings in document order
HeadingsOf(d) == InOrder({i \in 1..Len(d) : IsHeading(d, i)})

\* the Section built for the heading at position i, and the seen-set after it
sectionOf(d, i, taken) ==
    LET r           == renderSelection(d, contentSelOf(d, i), 1)
        headingText == TrimSpace(TextOf(d, i))
        resolved    == deduplicateID(rawHeadingID([id |-> AttrID(d, i), childID |-> <<>>,
                                                   text |-> headingText]), taken)
    IN [section |-> [HeadingText   |-> headingText,
                     HeadingHTML   |-> OuterHtml(d, i),
                     HeadingLevel  |-> d[i].level,
                     HeadingID     |-> resolved.id,
                     ContentHTML   |-> r.html,
                     ContentText   |-> TrimSpace(r.text),
                     AnchorTargets |-> <<>>,
                     ContentIDs    |-> r.ids],
        seen |-> resolved.seen]

-----------------------------------------------------------------------------
(* Parse's specification on a document tree: the ids of the document, one  *)
(* step per heading element, then the return.                              *)

MaxNodes == 4

\* the parents the node after the last node of d can have, in document order:
\* body, or a div that is the last node or one of its ancestors
OpenParents(d) ==
    {0} \cup {a \in 1..Len(d) : d[a].kind = "div" /\ IsAncestorOrSelf(d, a, Len(d))}

\* the html parser makes one text node of adjacent text
MergesWithLast(d, kind, parent) ==
    /\ kind = "text"
    /\ Len(d) > 0
    /\ d[Len(d)].kind = "text"
    /\ d[Len(d)].parent = parent

RECURSIVE DocsOfLen(_)
DocsOfLen(n) ==
    IF n = 0 THEN {<<>>}
    ELSE UNION {{Append(d, [kind |-> k, parent |-> p, level |-> ((n - 1) % 3) + 1]) :
                    <<k, p>> \in {kp \in NodeKinds \X OpenParents(d) :
                                    ~MergesWithLast(d, kp[1], kp[2])}} :
                d \in DocsOfLen(n - 1)}

DomDocuments == UNION {DocsOfLen(n) : n \in 0..MaxNodes}

\* the orders in which a range over the map headingIDSet can give its keys
KeyOrders(s) == {f \in [1..Cardinality(s) -> s] : \A i, j \in DOMAIN f : f[i] = f[j] => i = j}

InitDom ==
    /\ pc = "init"
    /\ dom \in DomDocuments
    /\ parsedSections = <<>>
    /\ allIDs = <<>>
    /\ seen = {}
    /\ headingIDs = <<>>
    /\ headings = <<>>
    /\ limits = NoLimits
    /\ parts = <<>>
    /\ bundles = <<>>
    /\ md = <<>>
    /\ mdParts = <<>>
    /\ files = NoFiles
    /\ dirs = {}
    /\ size = ZeroSize
    /\ verdict = [exceeds |-> FALSE, enabled |-> FALSE]
    /\ SlugIdle
    /\ IndexIdle
    /\ WorkerIdle
    /\ CrawlIdle
    /\ RunIdle
    /\ MenuIdle

\* doc.Find("[id]") and doc.Find("a[href]"); the documents have no a element
CallParse ==
    /\ pc = "init"
    /\ pc' = "parse"
    /\ allIDs' = idsOf(dom, [i \in 1..Len(dom) |-> i], 1)
    /\ UNCHANGED <<limits, parts, bundles, md, mdParts, files, dirs, size, verdict,
                   headings, seen, headingIDs, slugVars, indexVars, dom, parsedSections,
                   workerVars,
                   crawlVars,
                   runVars,
                   menuVars>>

\* the callback of doc.Find("h1, h2, h3, h4, h5, h6").Each, for the next heading
ParseSection ==
    /\ pc = "parse"
    /\ Len(parsedSections) < Len(HeadingsOf(dom))
    /\ LET r == sectionOf(dom, HeadingsOf(dom)[Len(parsedSections) + 1], seen)
       IN /\ parsedSections' = Append(parsedSections, r.section)
          /\ seen' = r.seen
    /\ UNCHANGED <<pc, limits, parts, bundles, md, mdParts, files, dirs, size, verdict,
                   headings, headingIDs, slugVars, indexVars, dom, allIDs,
                   workerVars,
                   crawlVars,
                   runVars,
                   menuVars>>

\* HeadingIDs is filled by a range over the map
ParseDocumentReturn ==
    /\ pc = "parse"
    /\ Len(parsedSections) = Len(HeadingsOf(dom))
    /\ pc' = "parsed"
    /\ headingIDs' \in KeyOrders(seen)
    /\ UNCHANGED <<limits, parts, bundles, md, mdParts, files, dirs, size, verdict,
                   headings, seen, slugVars, indexVars, domVars,
                   workerVars,
                   crawlVars,
                   runVars,
                   menuVars>>

NextDom == CallParse \/ ParseSection \/ ParseDocumentReturn

SpecDom == InitDom /\ [][NextDom]_vars

\* the k-th heading element of the document: the heading with k - 1 headings
\* before it
KthHeading(k) ==
    CHOOSE i \in 1..Len(dom) :
        /\ dom[i].kind = "h"
        /\ Cardinality({j \in 1..(i - 1) : dom[j].kind = "h"}) = k - 1

\* the section of the nearest heading before node j, 0 when no heading precedes
SectionBefore(j) == Cardinality({i \in 1..(j - 1) : dom[i].kind = "h"})

\* the html of node j is part of the contentHTML of the k-th section
InContent(k, j) == Contains(parsedSections[k].ContentHTML, OuterHtml(dom, j))

\* C16: Parse returns one section per heading element of the document, the k-th
\* section built from the k-th heading in document order, nested or not; no
\* heading, no section.
C16_OneSectionPerHeading ==
    pc = "parsed" =>
        /\ Len(parsedSections) = Cardinality({i \in 1..Len(dom) : dom[i].kind = "h"})
        /\ \A k \in 1..Len(parsedSections) :
               /\ parsedSections[k].HeadingText = NodeText(KthHeading(k))
               /\ parsedSections[k].HeadingLevel = dom[KthHeading(k)].level

\* a heading inside a div between two headings under body
C16_Witness ==
    /\ pc = "parsed"
    /\ Len(dom) = 4
    /\ dom[1].kind = "h" /\ dom[2].kind = "div"
    /\ dom[3].kind = "h" /\ dom[3].parent = 2
    /\ dom[4].kind = "h" /\ dom[4].parent = 0
    /\ [k \in 1..3 |-> parsedSections[k].HeadingText] = << <<"A">>, <<"C">>, <<"D">> >>

\* C17 as stated: no node is in the content of two sections, and no section's
\* contentHTML holds the heading element of another section.
C17_AsStated ==
    pc = "parsed" =>
        \A a, b \in 1..Len(parsedSections) :
            a # b =>
                /\ ~Contains(parsedSections[a].ContentHTML, parsedSections[b].HeadingHTML)
                /\ \A j \in 1..Len(dom) : ~(InContent(a, j) /\ InContent(b, j))

\* C18 as stated: every paragraph and text node that comes after a heading in
\* document order is in the content of the section of the nearest heading
\* before it.
C18_AsStated ==
    pc = "parsed" =>
        \A j \in 1..Len(dom) :
            (dom[j].kind \in {"p", "text"} /\ SectionBefore(j) > 0)
                => InContent(SectionBefore(j), j)

\* C19 as stated: the text of a script element, wherever it sits, is in no
\* section's contentHTML and in no section's contentText.
C19_AsStated ==
    \A k \in 1..Len(parsedSections) :
        \A j \in 1..Len(dom) :
            dom[j].kind = "script" =>
                /\ ~Contains(parsedSections[k].ContentHTML, NodeText(j))
                /\ ~Contains(parsedSections[k].ContentText, NodeText(j))

\* C20 as stated: the id of every element whose start tag is in a section's
\* contentHTML, a top-level element of the content included, is among the
\* section's contentIDs.
C20_AsStated ==
    \A k \in 1..Len(parsedSections) :
        \A j \in 1..Len(dom) :
            (AttrID(dom, j) # <<>> /\ Contains(parsedSections[k].ContentHTML, StartTag(dom, j)))
                => \E n \in 1..Len(parsedSections[k].ContentIDs) :
                       parsedSections[k].ContentIDs[n] = AttrID(dom, j)

\* the element siblings after node i
ElementsAfter(i) ==
    {j \in (i + 1)..Len(dom) : dom[j].parent = dom[i].parent /\ dom[j].kind # "text"}

\* the nodes of any kind that are siblings after node i
NodesAfter(i) == {j \in (i + 1)..Len(dom) : dom[j].parent = dom[i].parent}

\* node j holds a heading somewhere below it
HoldsHeading(j) ==
    \E h \in (j + 1)..Len(dom) : dom[h].kind = "h" /\ IsAncestorOrSelf(dom, j, dom[h].parent)

\* the members of js before the first heading, or, with orHolding, before the
\* first heading or element holding one
BeforeStop(js, orHolding) ==
    {j \in js : \A k \in js :
        k <= j => ~(dom[k].kind = "h" \/ (orHolding /\ HoldsHeading(k)))}

\* the html of the elements of js in document order, script elements left out
RECURSIVE HtmlOfElements(_)
HtmlOfElements(js) ==
    IF js = {} THEN <<>>
    ELSE LET m == CHOOSE j \in js : \A k \in js : j <= k
         IN (IF dom[m].kind = "script" THEN <<>> ELSE OuterHtml(dom, m))
            \o HtmlOfElements(js \ {m})

\* the content expected for the heading at node i when the fallback is taken
\* exactly when lonely holds
ExpectedContent(i, lonely) ==
    IF lonely /\ dom[i].parent # 0
    THEN HtmlOfElements(BeforeStop(ElementsAfter(dom[i].parent), TRUE))
    ELSE HtmlOfElements(BeforeStop(ElementsAfter(i), FALSE))

\* C21 as stated: the content is the parent's following siblings up to the next
\* heading or element holding one when the heading has no following sibling
\* of any kind in a parent other than body, and the heading's own following
\* siblings up to the next heading when it has any following sibling.
C21_AsStated ==
    \A k \in 1..Len(parsedSections) :
        parsedSections[k].ContentHTML =
            ExpectedContent(KthHeading(k), NodesAfter(KthHeading(k)) = {})

\* C21, amended: the fallback is taken exactly when the heading has no following
\* element sibling in a parent other than body, text nodes after the heading
\* not counting as siblings; the content is then the parent's following element
\* siblings up to, and excluding, the next heading or element holding a heading,
\* and otherwise the heading's own following element siblings up to the next
\* heading.
C21_NestedFallback ==
    \A k \in 1..Len(parsedSections) :
        parsedSections[k].ContentHTML =
            ExpectedContent(KthHeading(k), ElementsAfter(KthHeading(k)) = {})

\* <div><h1/></div><p/><h1/>: the paragraph after the div is the content of the
\* heading inside the div
C21_Witness ==
    /\ pc = "parsed"
    /\ Len(dom) = 4
    /\ dom[1].kind = "div"
    /\ dom[2].kind = "h" /\ dom[2].parent = 1
    /\ dom[3].kind = "p" /\ dom[3].parent = 0
    /\ dom[4].kind = "h" /\ dom[4].parent = 0
    /\ parsedSections[1].ContentHTML = OuterHtml(dom, 3)
    /\ parsedSections[2].ContentHTML = <<>>

-----------------------------------------------------------------------------
(* Concurrent invocations: two workers, each running one of Parse's        *)
(* heading-ID resolution, WriteIndex's path building, bundleParts or       *)
(* splitMarkdownByHeadings on its own document, their loop iterations      *)
(* interleaved.  What an invocation keeps between iterations (headingIDSet *)
(* and sections, hierarchy, the bundle accumulator, the chunkWriter) is    *)
(* declared inside the function, so each invocation has its own.           *)

MaxJobItems == 2

Workers == {1, 2}

\* mutant of localsOf: every invocation works on the variables of worker 1
localsOf_shared(w) == 1

\* whose local variables the invocation of worker w reads and writes: they are
\* created by the call itself
localsOf(w) == w

JobLimits == [MaxBytes |-> 6, MaxChars |-> 0, MaxTokens |-> 0]

Jobs ==
    {[kind |-> "parse", input |-> hs, limits |-> NoLimits] :
        hs \in [1..MaxJobItems -> {h \in HeadingChoices : h.text = <<"A", " ", "b">>}]}
    \cup {[kind |-> "index", input |-> [i \in 1..MaxJobItems |-> SectionAt("plain", i, lv[i])],
           limits |-> NoLimits] : lv \in [1..MaxJobItems -> {1, 2}]}
    \cup {[kind |-> "bundle", input |-> [i \in 1..MaxJobItems |-> PartOf(ks[i], i)],
           limits |-> JobLimits] : ks \in [1..MaxJobItems -> {"short", "head"}]}
    \cup {[kind |-> "split",
           input |-> <<"#", " ", "t">> \o NL \o NL
                     \o Join([i \in 1..MaxJobItems |-> LineOf(ks[i], i)], NL),
           limits |-> JobLimits] : ks \in [1..MaxJobItems -> {"sub", "text"}]}

\* splitMarkdownByHeadings returns before its loop for an empty or small markdown
splitsEarly(job) ==
    LET t == TrimSpace(job.input)
    IN t = <<>> \/ ~Enabled(job.limits) \/ ~exceeds(job.limits, sizeOfString(t))

\* what the loop of the invocation ranges over
ItemsOf(job) ==
    IF job.kind = "split"
    THEN IF splitsEarly(job) THEN <<>>
         ELSE splitOnSubheadings(splitHeadingPrefix(TrimSpace(job.input)).body)
    ELSE job.input

\* the variables an invocation declares before its loop
NewLocals(job) ==
    [seen      |-> {},
     ids       |-> <<>>,
     hierarchy |-> <<>>,
     paths     |-> <<>>,
     bundler   |-> NewBundler,
     writer    |-> IF job.kind = "split"
                   THEN newChunkWriter(keptPrefix(splitHeadingPrefix(TrimSpace(job.input)).prefix,
                                                  job.limits), job.limits)
                   ELSE newChunkWriter(<<>>, NoLimits)]

\* one iteration of the loop of the invocation
StepLocals(job, item, l) ==
    CASE job.kind = "parse" ->
           LET r == deduplicateID(rawHeadingID(item), l.seen)
           IN [l EXCEPT !.seen = r.seen, !.ids = Append(@, r.id)]
      [] job.kind = "index" ->
           LET h == setLevel(l.hierarchy, item.HeadingLevel, item.HeadingText)
           IN [l EXCEPT !.hierarchy = h, !.paths = Append(@, headingPathOf(h))]
      [] job.kind = "bundle" ->
           [l EXCEPT !.bundler = bundleOne(@, item, job.limits)]
      [] job.kind = "split" ->
           [l EXCEPT !.writer = AddBlock(@, item)]

\* what the invocation returns after its loop
ResultOf(job, l) ==
    CASE job.kind = "parse"  -> l.ids
      [] job.kind = "index"  -> l.paths
      [] job.kind = "bundle" ->
           IF TrimSpace(l.bundler.cur) # <<>>
           THEN Append(l.bundler.bundles, TrimSpace(l.bundler.cur) \o NL)
           ELSE l.bundler.bundles
      [] job.kind = "split"  ->
           IF ~splitsEarly(job) THEN Parts(l.writer)
           ELSE IF TrimSpace(job.input) = <<>> THEN <<>>
           ELSE <<TrimSpace(job.input)>>

InitWorkers ==
    /\ pc = "init"
    /\ jobs \in [Workers -> Jobs]
    /\ frames = [w \in Workers |->
                   [at |-> "called", pos |-> 0, locals |-> NewLocals(jobs[w]), result |-> <<>>]]
    /\ limits = NoLimits
    /\ parts = <<>>
    /\ bundles = <<>>
    /\ md = <<>>
    /\ mdParts = <<>>
    /\ files = NoFiles
    /\ dirs = {}
    /\ size = ZeroSize
    /\ verdict = [exceeds |-> FALSE, enabled |-> FALSE]
    /\ headings = <<>>
    /\ seen = {}
    /\ headingIDs = <<>>
    /\ SlugIdle
    /\ IndexIdle
    /\ DomIdle
    /\ CrawlIdle
    /\ RunIdle
    /\ MenuIdle

\* the declarations before the loop
EnterInvocation(w) ==
    /\ frames[w].at = "called"
    /\ frames' = [frames EXCEPT ![localsOf(w)].locals = NewLocals(jobs[w]),
                                ![w].at = "loop"]
    /\ UNCHANGED <<pc, limits, parts, bundles, md, mdParts, files, dirs, size, verdict,
                   headings, seen, headingIDs, slugVars, indexVars, domVars, jobs,
                   crawlVars,
                   runVars,
                   menuVars>>

\* one iteration of the loop
StepInvocation(w) ==
    /\ frames[w].at = "loop"
    /\ frames[w].pos < Len(ItemsOf(jobs[w]))
    /\ frames' = [frames EXCEPT
                    ![localsOf(w)].locals =
                        StepLocals(jobs[w], ItemsOf(jobs[w])[frames[w].pos + 1], @),
                    ![w].pos = @ + 1]
    /\ UNCHANGED <<pc, limits, parts, bundles, md, mdParts, files, dirs, size, verdict,
                   headings, seen, headingIDs, slugVars, indexVars, domVars, jobs,
                   crawlVars,
                   runVars,
                   menuVars>>

ReturnInvocation(w) ==
    /\ frames[w].at = "loop"
    /\ frames[w].pos = Len(ItemsOf(jobs[w]))
    /\ frames' = [frames EXCEPT ![w].result = ResultOf(jobs[w], frames[localsOf(w)].locals),
                                ![w].at = "returned"]
    /\ UNCHANGED <<pc, limits, parts, bundles, md, mdParts, files, dirs, size, verdict,
                   headings, seen, headingIDs, slugVars, indexVars, domVars, jobs,
                   crawlVars,
                   runVars,
                   menuVars>>

NextWorkers ==
    \E w \in Workers : EnterInvocation(w) \/ StepInvocation(w) \/ ReturnInvocation(w)

SpecWorkers == InitWorkers /\ [][NextWorkers]_vars

\* Parse's heading ids for a list of headings, run alone
RECURSIVE IDsAlone(_, _)
IDsAlone(hs, taken) ==
    IF hs = <<>> THEN <<>>
    ELSE LET r == deduplicateID(rawHeadingID(Head(hs)), taken)
         IN <<r.id>> \o IDsAlone(Tail(hs), r.seen)

\* WriteIndex's heading paths for a list of sections, run alone
RECURSIVE PathsAlone(_, _)
PathsAlone(secs, h) ==
    IF secs = <<>> THEN <<>>
    ELSE LET h2 == setLevel(h, Head(secs).HeadingLevel, Head(secs).HeadingText)
         IN <<headingPathOf(h2)>> \o PathsAlone(Tail(secs), h2)

\* what the job returns when nothing else runs
Alone(job) ==
    CASE job.kind = "parse"  -> IDsAlone(job.input, {})
      [] job.kind = "index"  -> PathsAlone(job.input, <<>>)
      [] job.kind = "bundle" -> bundleParts(job.input, job.limits)
      [] job.kind = "split"  -> splitMarkdownByHeadings(job.input, job.limits)

\* C22: whatever the interleaving of the iterations of two invocations on two
\* documents, each invocation returns what it returns when run alone.
C22_SameAsAlone ==
    \A w \in Workers : frames[w].at = "returned" => frames[w].result = Alone(jobs[w])

\* two resolutions of colliding heading ids, the second started and finished
\* between two iterations of the first
C22_Witness ==
    /\ jobs[1].kind = "parse" /\ jobs[2].kind = "parse"
    /\ frames[1].at = "loop" /\ frames[1].pos = 1
    /\ frames[2].at = "returned"
    /\ frames[2].result = << <<"a", "_", "b">>, <<"a", "_", "b", "_", "2">> >>
    /\ frames[1].locals.seen = {<<"a", "_", "b">>}

(***************************************************************************)
(* The crawler (internal/crawler): a colly collector in Async mode fetches *)
(* the URLs handed to Visit in goroutines of its own and runs the          *)
(* callbacks of a response (handleHTMLResponse, then handleLink once per   *)
(* link, or handleError) in the goroutine of the fetch.  A URL is a small  *)
(* number; the collector refuses a URL it has accepted before.             *)
(***************************************************************************)
MaxPagesBound == 2
MaxURLs == 3
MaxLinks == 2

URLs == 1 .. MaxURLs

\* opts.BaseURL
StartURL == 1

\* collector.Visit(u): a URL visited before is refused with an error, any
\* other URL is recorded as visited and its fetch is started
visitRefused(u) == u \in visited

visitedAfter(u) == visited \cup {u}

inflightAfter(u) == IF visitRefused(u) THEN inflight ELSE inflight \cup {u}

\* the Stats counters
NoStats == [PagesCrawled |-> 0, PagesFailed |-> 0]

StatsFields == {"PagesCrawled", "PagesFailed"}

InitCrawl ==
    /\ pc = "init"
    /\ limits = NoLimits
    /\ parts = <<>>
    /\ bundles = <<>>
    /\ md = <<>>
    /\ mdParts = <<>>
    /\ files = NoFiles
    /\ dirs = {}
    /\ size = ZeroSize
    /\ verdict = FALSE
    /\ headings = <<>>
    /\ seen = {}
    /\ headingIDs = <<>>
    /\ SlugIdle
    /\ IndexIdle
    /\ DomIdle
    /\ WorkerIdle
    /\ opts \in [MaxPages : 1 .. MaxPagesBound]
    /\ urlCount = 0
    /\ visited = {}
    /\ inflight = {}
    /\ handling = [u \in URLs |-> 0]
    /\ results = [u \in URLs |-> "none"]
    /\ stats = NoStats
    /\ crawlPc = "new"
    /\ returned = <<>>
    /\ RunIdle
    /\ MenuIdle

crawlFrame == <<pc, limits, parts, bundles, md, mdParts, files, dirs, size, verdict,
                headings, seen, headingIDs, slugVars, indexVars, domVars, workerVars,
                runVars, menuVars>>

\* AddURL(u), called by AddURLs for each URL of the sitemap before Crawl; an
\* error ends AddURLs and the run
AddURL(u) ==
    /\ crawlPc = "new"
    /\ IF urlCount >= opts.MaxPages
       THEN /\ crawlPc' = "failed"
            /\ UNCHANGED <<urlCount, visited, inflight>>
       ELSE /\ urlCount' = urlCount + 1
            /\ visited' = visitedAfter(u)
            /\ inflight' = inflightAfter(u)
            /\ crawlPc' = IF visitRefused(u) THEN "failed" ELSE "new"
    /\ UNCHANGED <<opts, handling, results, stats, returned>>
    /\ UNCHANGED crawlFrame

\* Crawl, up to the select: the counter is set to 1 and the start URL visited
CrawlStart ==
    /\ crawlPc = "new"
    /\ urlCount' = 1
    /\ visited' = visitedAfter(StartURL)
    /\ inflight' = inflightAfter(StartURL)
    /\ crawlPc' = IF visitRefused(StartURL) THEN "failed" ELSE "waiting"
    /\ UNCHANGED <<opts, handling, results, stats, returned>>
    /\ UNCHANGED crawlFrame

\* a fetch is answered with an HTML page holding n links: handleHTMLResponse
HandleHTMLResponse(u, n) ==
    /\ u \in inflight
    /\ inflight' = inflight \ {u}
    /\ results' = [results EXCEPT ![u] = "ok"]
    /\ stats' = [stats EXCEPT !.PagesCrawled = @ + 1]
    /\ handling' = [handling EXCEPT ![u] = n]
    /\ UNCHANGED <<opts, urlCount, visited, crawlPc, returned>>
    /\ UNCHANGED crawlFrame

\* a fetch fails: handleError, recordError
HandleError(u) ==
    /\ u \in inflight
    /\ inflight' = inflight \ {u}
    /\ results' = [results EXCEPT ![u] = "err"]
    /\ stats' = [stats EXCEPT !.PagesFailed = @ + 1]
    /\ UNCHANGED <<opts, urlCount, visited, handling, crawlPc, returned>>
    /\ UNCHANGED crawlFrame

\* incrementURLCount
incrementURLCount == urlCount < opts.MaxPages

\* handleLink on the next link of the page of u, which points at l
HandleLink(u, l) ==
    /\ handling[u] > 0
    /\ handling' = [handling EXCEPT ![u] = @ - 1]
    /\ IF incrementURLCount
       THEN /\ urlCount' = urlCount + 1
            /\ visited' = visitedAfter(l)
            /\ inflight' = inflightAfter(l)
       ELSE UNCHANGED <<urlCount, visited, inflight>>
    /\ UNCHANGED <<opts, results, stats, crawlPc, returned>>
    /\ UNCHANGED crawlFrame

\* collector.Wait() has returned: no fetch and no callback is left
CrawlReturnDone ==
    /\ crawlPc = "waiting"
    /\ inflight = {}
    /\ \A u \in URLs : handling[u] = 0
    /\ crawlPc' = "returned"
    /\ returned' = [stats |-> stats, err |-> "nil"]
    /\ UNCHANGED <<opts, urlCount, visited, inflight, handling, results, stats>>
    /\ UNCHANGED crawlFrame

\* ctx.Done() fires: Crawl copies cr.stats without holding mu, one counter
\* at a time and in either order, while the callbacks may be writing them
CrawlCancelled(f) ==
    /\ crawlPc = "waiting"
    /\ crawlPc' = "cancelled"
    /\ returned' = [g \in {f} |-> stats[g]]
    /\ UNCHANGED <<opts, urlCount, visited, inflight, handling, results, stats>>
    /\ UNCHANGED crawlFrame

\* ... and returns cr.results, the map the callbacks write to, with ctx.Err()
CrawlReturnCancelled ==
    /\ crawlPc = "cancelled"
    /\ crawlPc' = "returned"
    /\ returned' = [stats |-> [g \in StatsFields |->
                                 IF g \in DOMAIN returned THEN returned[g] ELSE stats[g]],
                    err |-> "ctx"]
    /\ UNCHANGED <<opts, urlCount, visited, inflight, handling, results, stats>>
    /\ UNCHANGED crawlFrame

NextCrawl ==
    \/ \E u \in URLs : AddURL(u)
    \/ CrawlStart
    \/ \E u \in URLs, n \in 0 .. MaxLinks : HandleHTMLResponse(u, n)
    \/ \E u \in URLs : HandleError(u)
    \/ \E u \in URLs, l \in URLs : HandleLink(u, l)
    \/ CrawlReturnDone
    \/ \E f \in StatsFields : CrawlCancelled(f)
    \/ CrawlReturnCancelled

SpecCrawl == InitCrawl /\ [][NextCrawl]_vars

\* C23: the number of URLs the collector has accepted, and hence the number
\* of pages crawled, never exceeds MaxPages, also when URLs were queued
\* through AddURL before Crawl.
C23_AsStated ==
    /\ Cardinality(visited) <= opts.MaxPages
    /\ stats.PagesCrawled <= opts.MaxPages

\* C30: once Crawl has returned cr.results, no callback writes to that map.
C30_AsStated ==
    [][crawlPc = "returned" => results' = results]_vars

(***************************************************************************)
(* A single-page run (app.Run, runSingle): fetch, prepare, analyze,        *)
(* summarize, and write the outputs unless the run is a dry run or the     *)
(* user declines.  The contents of the output files are the subject of     *)
(* the sections above; here a file holds a tag for its kind and the HTML   *)
(* it was made from.                                                       *)
(***************************************************************************)
S_cache == <<"c", "a", "c", "h", "e">>
S_assets == <<"a", "s", "s", "e", "t", "s">>
S_html == <<".", "h", "t", "m", "l">>
S_content_json == <<"c", "o", "n", "t", "e", "n", "t", ".", "j", "s", "o", "n">>
S_img == <<"i", "m", "g">>

\* the pages a server may answer with; "i" stands for an <img> element
Pages == {<<"a">>, <<"b">>, <<"a", "i">>}

RunOptions == [DryRun : BOOLEAN, UseCache : BOOLEAN, DownloadAssets : BOOLEAN, Yes : BOOLEAN]

\* fetch.GetCachePath: output/cache/<sha256 of the URL>.html
GetCachePath(u) == PathJoin(PathJoin(S_output, S_cache), <<"s", "h", "a", "(">> \o u \o <<")">> \o S_html)

CacheDir == PathJoin(S_output, S_cache)

\* fetch.SaveToCache
SaveToCache(fs, path, content) == WriteFile(fs, path, content)

\* output.Download: the assets directory is created and every image of the
\* page is stored in it
AssetsDir == PathJoin(OutputDir, S_assets)

hasImage(html) == \E i \in 1 .. Len(html) : html[i] = "i"

Download(fs, html) ==
    IF hasImage(html) THEN WriteFile(fs, PathJoin(AssetsDir, S_img), <<"i">>) ELSE fs

\* writeOutputsWithMarkdown: content.json, content.md and index.jsonl
writeOutputsWithMarkdown(fs, html) ==
    LET f1 == WriteFile(fs, PathJoin(OutputDir, S_content_json), <<"j">> \o html)
        f2 == WriteFile(f1, PathJoin(OutputDir, S_content_md), <<"m">> \o html)
    IN WriteFile(f2, PathJoin(OutputDir, S_index_jsonl), <<"x">> \o html)

InitRun ==
    /\ pc = "init"
    /\ limits = NoLimits
    /\ parts = <<>>
    /\ bundles = <<>>
    /\ md = <<>>
    /\ mdParts = <<>>
    /\ \E cached \in {<<>>} \cup Pages :
          /\ files = IF cached = <<>> THEN NoFiles
                     ELSE WriteFile(NoFiles, GetCachePath(BaseURL), cached)
          /\ dirs = IF cached = <<>> THEN {} ELSE {CacheDir}
    /\ size = ZeroSize
    /\ verdict = FALSE
    /\ headings = <<>>
    /\ seen = {}
    /\ headingIDs = <<>>
    /\ SlugIdle
    /\ IndexIdle
    /\ DomIdle
    /\ WorkerIdle
    /\ CrawlIdle
    /\ runOpts \in RunOptions
    /\ page \in Pages
    /\ fetched = <<>>
    /\ runPc = "start"
    /\ MenuIdle

runFrame == <<pc, limits, parts, bundles, md, mdParts, size, verdict,
              headings, seen, headingIDs, slugVars, indexVars, domVars, workerVars,
              crawlVars, menuVars>>

\* fetchResult: the cache is read first; after a fetch the page is saved to
\* the cache when the cache is in use
FetchResult(ok) ==
    /\ runPc = "start"
    /\ IF runOpts.UseCache /\ GetCachePath(BaseURL) \in DOMAIN files
       THEN /\ fetched' = [HTML |-> files[GetCachePath(BaseURL)], SourceInfo |-> "cache"]
            /\ runPc' = "fetched"
            /\ UNCHANGED <<files, dirs>>
       ELSE IF ~ok
       THEN /\ runPc' = "failed"
            /\ UNCHANGED <<fetched, files, dirs>>
       ELSE /\ fetched' = [HTML |-> page, SourceInfo |-> "static"]
            /\ runPc' = "fetched"
            /\ IF runOpts.UseCache
               THEN /\ files' = SaveToCache(files, GetCachePath(BaseURL), page)
                    /\ dirs' = dirs \cup {CacheDir}
               ELSE UNCHANGED <<files, dirs>>
    /\ UNCHANGED <<runOpts, page>>
    /\ UNCHANGED runFrame

\* pipeline.prepareDocument
PrepareDocument ==
    /\ runPc = "fetched"
    /\ runPc' = "prepared"
    /\ IF runOpts.DownloadAssets /\ ~runOpts.DryRun
       THEN /\ files' = Download(files, fetched.HTML)
            /\ dirs' = dirs \cup {AssetsDir}
       ELSE UNCHANGED <<files, dirs>>
    /\ UNCHANGED <<runOpts, page, fetched>>
    /\ UNCHANGED runFrame

\* pipeline.analyze and pipeline.summarize
Analyze ==
    /\ runPc = "prepared"
    /\ runPc' = "analyzed"
    /\ UNCHANGED <<runOpts, page, fetched, files, dirs>>
    /\ UNCHANGED runFrame

\* pipeline.shouldWrite, with the user's answer to the confirmation prompt
shouldWrite(answer) ==
    IF runOpts.DryRun THEN FALSE
    ELSE IF runOpts.Yes THEN TRUE
    ELSE answer

ShouldWrite(answer) ==
    /\ runPc = "analyzed"
    /\ runPc' = IF shouldWrite(answer) THEN "writing" ELSE "done"
    /\ UNCHANGED <<runOpts, page, fetched, files, dirs>>
    /\ UNCHANGED runFrame

\* pipeline.writeOutputs
WriteOutputs ==
    /\ runPc = "writing"
    /\ runPc' = "done"
    /\ files' = writeOutputsWithMarkdown(files, fetched.HTML)
    /\ dirs' = dirs \cup {OutputDir}
    /\ UNCHANGED <<runOpts, page, fetched>>
    /\ UNCHANGED runFrame

NextRun ==
    \/ \E ok \in BOOLEAN : FetchResult(ok)
    \/ PrepareDocument
    \/ Analyze
    \/ \E answer \in BOOLEAN : ShouldWrite(answer)
    \/ WriteOutputs

SpecRun == InitRun /\ [][NextRun]_vars

\* C24: with dry-run enabled no step of the run creates or changes a file or
\* a directory, whatever the other options are.
C24_AsStated ==
    [][runOpts.DryRun => (files' = files /\ dirs' = dirs)]_vars

(***************************************************************************)
(* The menu-based section files: WriteSectionFiles and writeNodes.  A menu *)
(* is the sequence of its nodes in pre-order; a node names its parent (0   *)
(* for a top-level node).                                                  *)
(***************************************************************************)
MaxMenuNodes == 3
MaxItems == 2

S_sections == <<"s", "e", "c", "t", "i", "o", "n", "s">>
S_section == <<"s", "e", "c", "t", "i", "o", "n">>

\* slugify of the output package: lower case, separators to dashes, the
\* characters a file name cannot hold removed
dropChars(s, cs) == SelectSeq(s, LAMBDA c : c \notin cs)

dashChars(s, cs) == [i \in 1..Len(s) |-> IF s[i] \in cs THEN "-" ELSE s[i]]

slugify(s) ==
    dropChars(dashChars(ToLower(TrimSpace(s)), {" ", "/", "\\", ":"}),
              {"?", "*", "\"", "<", ">", "|"})

MenuKinds == {"bare", "good", "blank", "untitled"}

MenuNode(kind, i, parent) ==
    [Title |-> CASE kind \in {"good", "blank"} -> <<UpperCase[i]>>
                 [] kind = "untitled" -> <<"?">>
                 [] kind = "bare" -> <<>>,
     Anchor |-> CASE kind \in {"good", "untitled"} -> <<"x">>
                  [] kind = "blank" -> <<"y">>
                  [] kind = "bare" -> <<>>,
     parent |-> parent]

\* the nodes a new node can be a child of: the last node and its ancestors
RECURSIVE MenuChain(_, _)
MenuChain(m, i) == IF i = 0 THEN {0} ELSE {i} \cup MenuChain(m, m[i].parent)

RECURSIVE MenusOfLen(_)
MenusOfLen(n) ==
    IF n = 0 THEN {<<>>}
    ELSE UNION {{Append(m, MenuNode(k, n, p)) : k \in MenuKinds, p \in MenuChain(m, Len(m))} :
                m \in MenusOfLen(n - 1)}

Menus == UNION {MenusOfLen(n) : n \in 0..MaxMenuNodes}

GoodMd == <<"#", " ", "T", "\n", "b">>
BlankMd == <<" ", "\n">>

\* the anchor "y" has blank markdown or none
MdMaps == {[a \in {<<"x">>, <<"y">>} |-> IF a = <<"x">> THEN GoodMd ELSE BlankMd],
           [a \in {<<"x">>} |-> GoodMd]}

SectionLimits == {NoLimits, [MaxBytes |-> 4, MaxChars |-> 0, MaxTokens |-> 0]}

\* node.Children
childrenOf(m, i) == SelectSeq([j \in 1..Len(m) |-> j], LAMBDA j : m[j].parent = i)

\* the os.MkdirAll of filepath.Dir(filePath): the directory and its parents
dirsOf(base, localPath) ==
    {Join(<<base>> \o SubSeq(localPath, 1, k), <<"/">>) : k \in 0..(Len(localPath) - 1)}

\* mutant of stops: the budget is never looked at
stops_never(remaining) == FALSE

\* remaining != nil && *remaining == 0; a nil pointer is <<>>
stops(remaining) == remaining # <<>> /\ remaining[1] = 0

\* if remaining != nil && *remaining > 0 { *remaining-- }
decremented(remaining) ==
    IF remaining # <<>> /\ remaining[1] > 0 THEN <<remaining[1] - 1>> ELSE remaining

menuPart(node) ==
    IF slugify(node.Title) # <<>> THEN slugify(node.Title)
    ELSE IF slugify(node.Anchor) # <<>> THEN slugify(node.Anchor)
    ELSE S_section

hasMarkdown(node, byID) ==
    /\ node.Anchor # <<>>
    /\ node.Anchor \in DOMAIN byID
    /\ TrimSpace(byID[node.Anchor]) # <<>>

\* one iteration of the loop of writeNodes on the node i: the node's own file
writeNode(st, base, m, i, byID, localPath, lim) ==
    LET filePath == Join(<<base>> \o localPath, <<"/">>)
        fs == writeMarkdownFile([files |-> st.files,
                                 dirs |-> st.dirs \cup dirsOf(base, localPath)],
                                filePath, byID[m[i].Anchor], lim)
    IN IF hasMarkdown(m[i], byID)
       THEN [files |-> fs.files, dirs |-> fs.dirs,
             remaining |-> decremented(st.remaining),
             written |-> Append(st.written, i)]
       ELSE st

\* writeNodes; each state handed on is evaluated once, as a member of a
\* one-element set
RECURSIVE writeNodes(_, _, _, _, _, _, _)
writeNodes(st, base, m, nodes, byID, parentPath, lim) ==
    IF nodes = <<>> THEN st
    ELSE IF stops(st.remaining) THEN st
    ELSE LET i == Head(nodes)
             localPath == Append(parentPath, menuPart(m[i]))
             afterChildren(st1) ==
                 IF childrenOf(m, i) # <<>>
                 THEN writeNodes(st1, base, m, childrenOf(m, i), byID, localPath, lim)
                 ELSE st1
             afterNode(st1) ==
                 CHOOSE r \in {writeNodes(st2, base, m, Tail(nodes), byID, parentPath, lim) :
                                 st2 \in {afterChildren(st1)}} : TRUE
         IN CHOOSE r \in {afterNode(st1) :
                            st1 \in {writeNode(st, base, m, i, byID, localPath, lim)}} : TRUE

WriteSectionFiles(fs, outputDir, m, byID, max, lim) ==
    LET base == PathJoin(outputDir, S_sections)
    IN writeNodes([files |-> fs.files, dirs |-> fs.dirs \cup {base},
                   remaining |-> IF max <= 0 THEN <<>> ELSE <<max>>,
                   written |-> <<>>],
                  base, m, childrenOf(m, 0), byID, <<>>, lim)

InitMenu ==
    /\ pc = "init"
    /\ limits \in SectionLimits
    /\ parts = <<>>
    /\ bundles = <<>>
    /\ md = <<>>
    /\ mdParts = <<>>
    /\ files = NoFiles
    /\ dirs = {}
    /\ size = ZeroSize
    /\ verdict = FALSE
    /\ headings = <<>>
    /\ seen = {}
    /\ headingIDs = <<>>
    /\ SlugIdle
    /\ IndexIdle
    /\ DomIdle
    /\ WorkerIdle
    /\ CrawlIdle
    /\ RunIdle
    /\ menu \in Menus
    /\ mdByID \in MdMaps
    /\ maxItems \in 0..MaxItems
    /\ written = <<>>

CallWriteSectionFiles ==
    /\ pc = "init"
    /\ pc' = "sectionsWritten"
    /\ LET st == WriteSectionFiles([files |-> files, dirs |-> dirs], OutputDir,
                                   menu, mdByID, maxItems, limits)
       IN /\ files' = st.files
          /\ dirs' = st.dirs
          /\ written' = st.written
    /\ UNCHANGED <<limits, parts, bundles, md, mdParts, size, verdict,
                   headings, seen, headingIDs, slugVars, indexVars, domVars, workerVars,
                   crawlVars, runVars, menu, mdByID, maxItems>>

NextMenu == CallWriteSectionFiles

SpecMenu == InitMenu /\ [][NextMenu]_vars

\* the nodes with a non-empty anchor and non-blank markdown, in pre-order
WritableNodes ==
    SelectSeq([j \in 1..Len(menu) |-> j],
              LAMBDA j : /\ menu[j].Anchor # <<>>
                         /\ menu[j].Anchor \in DOMAIN mdByID
                         /\ \E k \in 1..Len(mdByID[menu[j].Anchor]) :
                               ~IsSpace(mdByID[menu[j].Anchor][k]))

\* the path of a node's section file, from the node's ancestors
RECURSIVE SectionFileOf(_)
SectionFileOf(j) ==
    IF j = 0 THEN PathJoin(OutputDir, S_sections)
    ELSE PathJoin(SectionFileOf(menu[j].parent), menuPart(menu[j]))

\* C25: with max-menu-items = M > 0 the nodes written are the first M nodes
\* in pre-order that have a non-empty anchor with non-blank markdown, at any
\* depth (all of them when there are fewer); with M = 0 all of them are
\* written; and every node written has its section file.
C25_FirstMaxItems ==
    pc = "sectionsWritten" =>
        /\ Len(written) <= Len(WritableNodes)
        /\ maxItems > 0 => Len(written) <= maxItems
        /\ written = SubSeq(WritableNodes, 1,
                            IF maxItems > 0 /\ maxItems < Len(WritableNodes)
                            THEN maxItems ELSE Len(WritableNodes))
        /\ \A k \in 1..Len(written) : (SectionFileOf(written[k]) \o S_md) \in DOMAIN files

\* M = 1 and three nodes: the first has no title and no anchor, its child is written, and
\* the writable top-level node that follows is not
C25_Witness ==
    /\ pc = "sectionsWritten"
    /\ maxItems = 1
    /\ Len(menu) = 3
    /\ menu[1].Anchor = <<>> /\ menu[2].parent = 1 /\ menu[3].parent = 0
    /\ WritableNodes = <<2, 3>>
    /\ written = <<2>>
    /\ DOMAIN files = {PathJoin(PathJoin(PathJoin(OutputDir, S_sections), S_section), <<"b", ".", "m", "d">>)}

-----------------------------------------------------------------------------
(* Further properties of the sub-section splitter: how the (sub-)blocks    *)
(* handed to addSubBlock are grouped into the emitted parts.               *)

\* the prefix the chunkWriter is seeded with
WriterPrefix == keptPrefix(splitHeadingPrefix(TrimSpace(md)).prefix, limits)

\* the non-blank (sub-)blocks handed to addSubBlock, in order
RECURSIVE SubBlocksOf(_)
SubBlocksOf(blocks) ==
    IF blocks = <<>> THEN <<>>
    ELSE LET block == TrimSpace(Head(blocks))
             subs == IF block = <<>> THEN <<>>
                     ELSE IF exceeds(limits, sizeOfString(block)) THEN splitOnParagraphs(block)
                     ELSE <<block>>
         IN SelectSeq([i \in 1..Len(subs) |-> TrimSpace(subs[i])], LAMBDA s : s # <<>>)
            \o SubBlocksOf(Tail(blocks))

SubBlocks == SubBlocksOf(splitOnSubheadings(splitHeadingPrefix(TrimSpace(md)).body))

\* the part made of the prefix and a run of (sub-)blocks, as it is written
PartOfRun(prefix, run) == TrimSpace(prefix \o Join(run, NL \o NL)) \o NL

\* how many (sub-)blocks each part holds: the parts are matched, in order, with
\* consecutive runs of the (sub-)blocks; <<-1>> when they cannot be
RECURSIVE RunLengths(_, _, _)
RunLengths(ps, subs, prefix) ==
    IF ps = <<>> THEN (IF subs = <<>> THEN <<>> ELSE <<-1>>)
    ELSE LET fits == {n \in 0..Len(subs) : PartOfRun(prefix, SubSeq(subs, 1, n)) = Head(ps)}
         IN IF fits = {} THEN <<-1>>
            ELSE LET n == CHOOSE k \in fits : \A l \in fits : l <= k
                 IN <<n>> \o RunLengths(Tail(ps), SubSeq(subs, n + 1, Len(subs)), prefix)

PartRuns ==
    CHOOSE r \in {RunLengths(mdParts, subs, prefix) :
                    subs \in {SubBlocks}, prefix \in {WriterPrefix}} : TRUE

\* a part without the newline that ends it
Unterminated(part) == SubSeq(part, 1, Len(part) - 1)

\* C26 as stated: every emitted part that holds two or more (sub-)blocks is, as
\* written, within every configured limit.
C26_AsStated ==
    (pc = "split" /\ Oversized(md, limits)) =>
        LET runs == PartRuns
        IN \A k \in 1..Len(mdParts) :
               (k <= Len(runs) /\ runs[k] >= 2)
               => ~exceeds(limits, sizeOfString(mdParts[k]))

\* C26: every emitted part is the prefix and a run of consecutive (sub-)blocks;
\* a part that holds two or more (sub-)blocks is within every configured limit
\* once the newline that ends it is left out, and none of its (sub-)blocks
\* exceeds the limits on its own.
C26_MergedWithinLimits ==
    (pc = "split" /\ Oversized(md, limits)) =>
        LET runs == PartRuns
        IN /\ Len(runs) = Len(mdParts)
           /\ \A k \in 1..Len(runs) : runs[k] >= 0
           /\ \A k \in 1..Len(mdParts) :
                 runs[k] >= 2 =>
                     /\ ~exceeds(limits, sizeOfString(Unterminated(mdParts[k])))
                     /\ LET subs == SubBlocks
                        IN \A s \in 1..Len(subs) :
                               exceeds(limits, sizeOfString(subs[s]))
                               => Index(mdParts[k], subs[s]) = 0

\* two (sub-)blocks merged into one part that is as long as MaxBytes allows, and
\* one byte longer with the newline that ends it
C26_Witness ==
    /\ pc = "split" /\ Oversized(md, limits)
    /\ limits.MaxBytes > 0
    /\ \E k \in 1..Len(mdParts) :
          /\ k <= Len(PartRuns) /\ PartRuns[k] >= 2
          /\ sizeOfString(Unterminated(mdParts[k])).bytes = limits.MaxBytes

\* C27 as stated: when the heading prefix fits within the limits, every emitted
\* part begins with the heading line followed by a blank line.
C27_AsStated ==
    (pc = "split" /\ Oversized(md, limits)
       /\ splitHeadingPrefix(TrimSpace(md)).prefix # <<>>
       /\ ~exceeds(limits, sizeOfString(splitHeadingPrefix(TrimSpace(md)).prefix)))
    => \A k \in 1..Len(mdParts) :
           HasPrefix(mdParts[k], splitHeadingPrefix(TrimSpace(md)).prefix)

\* C28 as stated: every emitted part holds at least one (sub-)block beyond the
\* repeated heading prefix.
C28_AsStated ==
    (pc = "split" /\ Oversized(md, limits)) =>
        LET runs == PartRuns
        IN /\ Len(runs) = Len(mdParts)
           /\ \A k \in 1..Len(runs) : runs[k] >= 1

-----------------------------------------------------------------------------
(* A further property of the index builder.                                *)

\* the sections are such as Parse resolves them for headings without an id
\* attribute: the heading id is empty exactly when the text slugifies to
\* nothing, and the heading ids that are not empty are pairwise distinct
AsParsed ==
    /\ \A i \in 1..Len(sections) :
          (sections[i].HeadingID = <<>>) <=> (slugifyHeading(sections[i].HeadingText) = <<>>)
    /\ \A i, j \in 1..Len(sections) :
          (i # j /\ sections[i].HeadingID # <<>>)
          => sections[i].HeadingID # sections[j].HeadingID

\* C29 as stated: the ids of the records written for one document are pairwise
\* distinct, also for sections whose heading id is empty.
C29_AsStated ==
    (pc = "written" /\ AsParsed) =>
        \A i, j \in 1..Len(records) : i # j => records[i].ID # records[j].ID

====
